---- MODULE Spec2Model ----
(***************************************************************************)
(* The reference-selection and retuning core of the just-intonation        *)
(* polysynth: PolySynth (polysynth.js), its sustain-pedal base class       *)
(* BaseSynth (base-synth.js), the interval table JustIntervals and the     *)
(* MIDI-facing handlers of PolyApp.                                        *)
(*                                                                         *)
(* A frequency is kept exactly.  Every frequency the synth produces is     *)
(* 440 * 2^(c/1200) * num/den for an integer number of cents c and a       *)
(* rational num/den; with 0 <= c < 1200 and num/den in lowest terms the    *)
(* representation is unique, because 2^(c/1200) is irrational for          *)
(* 0 < c < 1200.  The factor 440 is part of num.                           *)
(***************************************************************************)
EXTENDS Integers, Sequences, FiniteSets, TLC

\* ------------------------------------------------------------------ bounds
\* Voices in the pool (the constructor's polyphony argument) of the general
\* specification; the chord specifications use one more.
Polyphony == 2
\* Handler invocations explored after initialization.
MaxSteps == 4
\* Handler invocations of the sustain-pedal specification, which has fewer
\* handlers and so can follow them further.
PedalSteps == 6
\* Handler invocations of the chord specification.
ChordSteps == 4
\* Handler invocations of the retuning specification.
RetuneSteps == 5
\* Pool size of the pools findHarmonicCenter is applied to on its own.
MaxChord == 4
\* Handler invocations of the release specification.
ReleaseSteps == 6
\* Handler invocations of the specification that follows the fade timers.
TimerSteps == 4
\* Largest interval, in semitones, getJustFrequency is applied to on its own.
JustSpan == 36
\* Handler invocations of the monosynth specification.
MonoSteps == 5
\* Handler invocations of the sticky-reference specification.
StickySteps == 5
\* Handler invocations of the specification of several sustained notes.
ListSteps == 7

\* Keys the player presses in the general specification.  Two major seconds
\* (9/8 * 9/8) are not a major third (5/4), so reference changes move
\* frequencies.
Notes == {60, 62, 64}
\* Keys of the chord specification: the C major triad and the C above it.
ChordKeys == {60, 64, 67, 72}
\* Notes of the pools given to findHarmonicCenter on its own: the triads and
\* seventh chords of the documentation's examples.
ChordNotes == {60, 62, 64, 65, 67, 69, 71, 72, 74, 77}
\* Pitch-wheel positions (normalized amount).
BendAmounts == {-1, 0, 1}

\* ---------------------------------------------------------------- variables
VARIABLES
  voices,                 \* PolySynth.voices
  currentReferenceVoice,  \* pool index of the sticky reference, NoVoice for null
  lastBassFrequency, lastBassMidiNote,
  pitchBendAmount,
  referenceMode, retuneMode,
  sustainPedalDown,
  sustainedNotes,         \* a Set, in insertion order
  sustainedVoices,        \* a Set of voice instances (pool indices)
  keysHeldDown,
  budget,                 \* handler invocations still to be explored
  last,                   \* the last handler, its argument and what it returned
  hcOut,                  \* what findHarmonicCenter returned, applied on its own
  timers,                 \* the setTimeout callbacks of the voices not yet run
  just,                   \* getJustFrequency applied on its own: arguments, result
  mono                    \* the Synth (monosynth) of App and its last handler

\* ------------------------------------------------------------- null values
null == -1
NoFreq == [c |-> 0, num |-> 0, den |-> 1]
NoVoice == 0

\* this.maxVoices: the pool is created once, by init()
maxVoices == Len(voices)

\* cents of a full pitch-wheel deflection
pitchBendRange == 200

\* ------------------------------------------------------- exact frequencies
RECURSIVE Gcd(_, _)
Gcd(a, b) == IF b = 0 THEN a ELSE Gcd(b, a % b)

RECURSIVE Pow2(_)
Pow2(k) == IF k <= 0 THEN 1 ELSE 2 * Pow2(k - 1)

\* A frequency is kept exactly, as 2^(c/1200) * num/den Hz with c in 0..1199
\* and num/den in lowest terms.  Freq(cents, p, q) is 2^(cents/1200) * p/q Hz.
Freq(cents, p, q) ==
  LET oct == cents \div 1200
      c   == cents % 1200
      pp  == IF oct >= 0 THEN p * Pow2(oct) ELSE p
      qq  == IF oct >= 0 THEN q ELSE q * Pow2(-oct)
      g   == Gcd(pp, qq)
  IN  [c |-> c, num |-> pp \div g, den |-> qq \div g]

\* f * p/q
FMul(f, p, q) == Freq(f.c, f.num * p, f.den * q)

\* f * 2^(cents/1200)
FBend(f, cents) == Freq(f.c + cents, f.num, f.den)

\* ------------------------------------------------------------ JustIntervals
\* the table with the thirds and sixths of the Pythagorean scale
pythagoreanRatios ==
  [i \in 0..12 |->
     CASE i = 0  -> <<1, 1>>
       [] i = 1  -> <<16, 15>>
       [] i = 2  -> <<9, 8>>
       [] i = 3  -> <<32, 27>>
       [] i = 4  -> <<81, 64>>
       [] i = 5  -> <<4, 3>>
       [] i = 6  -> <<45, 32>>
       [] i = 7  -> <<3, 2>>
       [] i = 8  -> <<128, 81>>
       [] i = 9  -> <<27, 16>>
       [] i = 10 -> <<9, 5>>
       [] i = 11 -> <<15, 8>>
       [] i = 12 -> <<2, 1>>]

intervalRatios ==
  [i \in 0..12 |->
     CASE i = 0  -> <<1, 1>>
       [] i = 1  -> <<16, 15>>
       [] i = 2  -> <<9, 8>>
       [] i = 3  -> <<6, 5>>
       [] i = 4  -> <<5, 4>>
       [] i = 5  -> <<4, 3>>
       [] i = 6  -> <<45, 32>>
       [] i = 7  -> <<3, 2>>
       [] i = 8  -> <<8, 5>>
       [] i = 9  -> <<5, 3>>
       [] i = 10 -> <<9, 5>>
       [] i = 11 -> <<15, 8>>
       [] i = 12 -> <<2, 1>>]

Abs(x) == IF x < 0 THEN -x ELSE x

\* the ratio of the interval's size, whatever its direction
justRatioUpward(interval) ==
  <<intervalRatios[Abs(interval) % 12][1] * Pow2(Abs(interval) \div 12),
    intervalRatios[Abs(interval) % 12][2]>>

\* The ratio getJustFrequency multiplies by, as <<numerator, denominator>>.
justRatio(interval) ==
  LET absInterval == Abs(interval)
      octaves     == absInterval \div 12
      semitones   == absInterval % 12
      r           == intervalRatios[semitones]
      up          == <<r[1] * Pow2(octaves), r[2]>>
  IN  IF interval < 0 THEN <<up[2], up[1]>> ELSE up

\* getJustFrequency giving the equal-tempered interval from the reference
getTemperedFrequency(referenceFreq, referenceMidi, targetMidi) ==
  Freq(referenceFreq.c + (targetMidi - referenceMidi) * 100,
       referenceFreq.num, referenceFreq.den)

getJustFrequency(referenceFreq, referenceMidi, targetMidi) ==
  LET ratio == justRatio(targetMidi - referenceMidi)
  IN  FMul(referenceFreq, ratio[1], ratio[2])

midiToFrequency(midiNote) == Freq((midiNote - 69) * 100, 440, 1)

\* -------------------------------------------------------------------- Voice
NewVoice ==
  [isActive |-> FALSE, midiNote |-> null, frequency |-> NoFreq,
   noteOnTime |-> null, tunedToBassNote |-> null, tunedToBassFreq |-> NoFreq,
   oscFreq |-> NoFreq, connected |-> FALSE]

VoiceStart(v, midiNote, frequency, t, bassNote, bassFreq) ==
  [v EXCEPT !.isActive = TRUE, !.midiNote = midiNote, !.frequency = frequency,
            !.noteOnTime = t, !.tunedToBassNote = bassNote,
            !.tunedToBassFreq = bassFreq, !.oscFreq = frequency,
            !.connected = TRUE]

VoiceRetune(v, newFrequency, mode) ==
  IF v.oscFreq = NoFreq \/ ~v.isActive THEN v
  ELSE [v EXCEPT !.frequency = newFrequency,
                 !.oscFreq = IF mode \in {"instant", "smooth"}
                             THEN newFrequency ELSE v.oscFreq]

VoiceRelease(v) ==
  IF v.oscFreq = NoFreq THEN v
  ELSE [v EXCEPT !.isActive = FALSE, !.midiNote = null, !.frequency = NoFreq,
                 !.oscFreq = NoFreq, !.connected = FALSE]

\* stop() leaving the voice in use until its fade-out has run
VoiceStopAfterFade(v) ==
  [v EXCEPT !.oscFreq = NoFreq, !.connected = FALSE]

VoiceStop(v) ==
  [v EXCEPT !.isActive = FALSE, !.midiNote = null, !.frequency = NoFreq,
            !.oscFreq = NoFreq, !.connected = FALSE]

\* The callbacks a voice hands to setTimeout.  Those of start (the crossfade
\* of a voice restarted while it plays) and of release disconnect the nodes
\* the voice had when the timer was set; that of stop disconnects the nodes
\* the voice has when the callback runs, and throws into its catch when the
\* voice has none.  `connected` says whether the nodes the voice has now are
\* connected to the output.
Timer(i, kind) == [voice |-> i, kind |-> kind]

\* The callbacks not yet run.  A specification that does not follow them
\* takes each callback to have run before the next event arrives, when a
\* stopped voice has no nodes left for it to disconnect: it keeps none pending.
NoTimers(followed) == [followed |-> followed, pending |-> {}]

\* setTimeout, for each voice of `slots` that has an oscillator
setTimeouts(s, slots, kind) ==
  IF ~s.timers.followed THEN s.timers
  ELSE [s.timers EXCEPT !.pending =
          @ \cup {Timer(i, kind) : i \in {j \in slots : s.voices[j].oscFreq # NoFreq}}]

\* the callback of a timer, run on the voice as it is by then
VoiceTimeout(v, kind) ==
  IF kind = "stop" /\ v.oscFreq # NoFreq THEN [v EXCEPT !.connected = FALSE]
  ELSE v

\* no application of getJustFrequency on its own
NoJust ==
  [given |-> NoFreq, frequency |-> NoFreq, referenceMidi |-> null,
   targetMidi |-> null, applied |-> 0]

\* ---------------------------------------------------------------- PolySynth
\* A handler works on the synth object s: the PolySynth/BaseSynth fields, the
\* audio clock `now` read by Voice.start, and `rnd`, the values the next calls
\* of Math.random will return (in units of 1/maxVoices).  An operation that
\* both changes the synth and returns a value yields a record of the synth
\* afterwards (s) and the value.  Each JavaScript function is written as a
\* short chain of operators, one per stage of its body, so that every
\* intermediate value is computed in one place.
SlotSeq == [i \in 1..maxVoices |-> i]

\* this.voices.filter(v => v.isActive), as pool indices in array order
ActiveSlots(vs) == SelectSeq(SlotSeq, LAMBDA i : vs[i].isActive)

RECURSIVE HighestFrom(_, _, _, _)
\* the reduce with its comparison turned round
HighestFrom(vs, act, k, lowest) ==
  IF k > Len(act) THEN lowest
  ELSE HighestFrom(vs, act, k + 1,
         IF vs[act[k]].midiNote > vs[lowest].midiNote THEN act[k] ELSE lowest)

RECURSIVE LowestFrom(_, _, _, _)
LowestFrom(vs, act, k, lowest) ==
  IF k > Len(act) THEN lowest
  ELSE LowestFrom(vs, act, k + 1,
         IF vs[act[k]].midiNote < vs[lowest].midiNote THEN act[k] ELSE lowest)

getLowestActiveVoice(vs) ==
  IF Len(ActiveSlots(vs)) = 0 THEN NoVoice
  ELSE LowestFrom(vs, ActiveSlots(vs), 2, ActiveSlots(vs)[1])

\* JavaScript's remainder takes the sign of the dividend.
JsRem(a, b) == IF a >= 0 THEN a % b ELSE -((-a) % b)

scores ==
  [m \in 0..11 |->
     CASE m = 0  -> 10
       [] m = 7  -> 9
       [] m = 5  -> 8
       [] m = 4  -> 7
       [] m = 3  -> 7
       [] m = 9  -> 6
       [] m = 8  -> 6
       [] m = 2  -> 3
       [] m = 10 -> 3
       [] m = 11 -> 2
       [] m = 1  -> 1
       [] m = 6  -> 1]

getConsonanceScore(interval) == scores[JsRem(JsRem(interval, 12) + 12, 12)]

RECURSIVE ScoreFrom(_, _, _)
\* the inner loop of findHarmonicCenter for candidate c over notes[k..]
ScoreFrom(notes, c, k) ==
  IF k > Len(notes) THEN 0
  ELSE (IF k = c THEN 0 ELSE getConsonanceScore(notes[k] - notes[c]))
       + ScoreFrom(notes, c, k + 1)

RECURSIVE LastBestFrom(_, _, _, _)
\* the outer loop replacing bestVoice on an equal score too
LastBestFrom(notes, c, bestVoice, bestScore) ==
  IF c > Len(notes) THEN bestVoice
  ELSE IF bestVoice = 0 \/ ScoreFrom(notes, c, 1) >= bestScore
  THEN LastBestFrom(notes, c + 1, c, ScoreFrom(notes, c, 1))
  ELSE LastBestFrom(notes, c + 1, bestVoice, bestScore)

RECURSIVE BestFrom(_, _, _, _)
\* the outer loop: bestVoice is replaced only by a strictly higher score
\* (bestScore starts at -Infinity, below every score)
BestFrom(notes, c, bestVoice, bestScore) ==
  IF c > Len(notes) THEN bestVoice
  ELSE IF bestVoice = 0 \/ ScoreFrom(notes, c, 1) > bestScore
  THEN BestFrom(notes, c + 1, c, ScoreFrom(notes, c, 1))
  ELSE BestFrom(notes, c + 1, bestVoice, bestScore)

\* findHarmonicCenter over the notes of the active voices (in array order):
\* the position of the chosen voice in that list, 0 for none.
harmonicCenterIndex(notes) ==
  IF Len(notes) = 0 THEN 0
  ELSE IF Len(notes) = 1 THEN 1
  ELSE BestFrom(notes, 1, 0, 0)

ActiveNotes(vs) == [k \in 1..Len(ActiveSlots(vs)) |-> vs[ActiveSlots(vs)[k]].midiNote]

SlotAt(act, idx) == IF idx = 0 THEN NoVoice ELSE act[idx]

findHarmonicCenter(vs) ==
  SlotAt(ActiveSlots(vs), harmonicCenterIndex(ActiveNotes(vs)))

\* Math.floor(Math.random() * n) for Math.random() = r / maxVoices
randomIndex(r, n) == (r * n) \div maxVoices

IsSticky(s) ==
  /\ s.currentReferenceVoice # NoVoice
  /\ s.voices[s.currentReferenceVoice].isActive

\* the branches of getReferenceVoice that choose a new sticky reference
pickRandom(s, act) ==
  IF Len(act) = 0
  THEN [s |-> [s EXCEPT !.currentReferenceVoice = NoVoice], ref |-> NoVoice]
  ELSE [s |-> [s EXCEPT !.currentReferenceVoice =
                          act[randomIndex(Head(s.rnd), Len(act)) + 1],
                        !.rnd = Tail(s.rnd)],
        ref |-> act[randomIndex(Head(s.rnd), Len(act)) + 1]]

pickCenter(s, harmonicCenter) ==
  [s |-> [s EXCEPT !.currentReferenceVoice = harmonicCenter],
   ref |-> harmonicCenter]

\* getReferenceVoice: the synth afterwards (currentReferenceVoice and the
\* random source may change) and the voice returned.
getReferenceVoice(s) ==
  CASE s.referenceMode = "bass" ->
         [s |-> s, ref |-> getLowestActiveVoice(s.voices)]
    [] s.referenceMode = "random" ->
         IF IsSticky(s) THEN [s |-> s, ref |-> s.currentReferenceVoice]
         ELSE pickRandom(s, ActiveSlots(s.voices))
    [] s.referenceMode = "lattice" ->
         IF IsSticky(s) THEN [s |-> s, ref |-> s.currentReferenceVoice]
         ELSE pickCenter(s, findHarmonicCenter(s.voices))
    [] OTHER -> [s |-> s, ref |-> getLowestActiveVoice(s.voices)]

\* setReferenceMode storing whatever it is given
setReferenceModeUnchecked(s, mode) ==
  [s EXCEPT !.referenceMode = mode, !.currentReferenceVoice = NoVoice]

\* setReferenceMode clearing the stored reference as well
setReferenceModeForgetting(s, mode) ==
  [s EXCEPT !.referenceMode = IF mode \notin {"bass", "random", "lattice"}
                              THEN "bass" ELSE mode,
            !.currentReferenceVoice = NoVoice,
            !.lastBassFrequency = NoFreq,
            !.lastBassMidiNote = null]

setReferenceMode(s, mode) ==
  [s EXCEPT !.referenceMode = IF mode \notin {"bass", "random", "lattice"}
                              THEN "bass" ELSE mode,
            !.currentReferenceVoice = NoVoice]

setRetuneMode(s, mode) == [s EXCEPT !.retuneMode = mode]

RECURSIVE NewestFrom(_, _, _)
\* the reduce with its comparison turned round
NewestFrom(vs, k, oldest) ==
  IF k > maxVoices THEN oldest
  ELSE NewestFrom(vs, k + 1,
         IF vs[k].noteOnTime > vs[oldest].noteOnTime THEN k ELSE oldest)

RECURSIVE OldestFrom(_, _, _)
OldestFrom(vs, k, oldest) ==
  IF k > maxVoices THEN oldest
  ELSE OldestFrom(vs, k + 1,
         IF vs[k].noteOnTime < vs[oldest].noteOnTime THEN k ELSE oldest)

\* this.voices.find(pred): the first of the pool indices satisfying it, 0 for
\* undefined
FirstSlot(found) ==
  IF found = {} THEN NoVoice
  ELSE CHOOSE i \in found : \A j \in found : i <= j

stealOldest(vs, oldest) == [voice |-> oldest, stolenNote |-> vs[oldest].midiNote]

\* allocateVoice without its first step, the retrigger
allocateWithoutRetrigger(vs, midiNote) ==
  IF \E i \in 1..maxVoices : ~vs[i].isActive
  THEN [voice |-> FirstSlot({i \in 1..maxVoices : ~vs[i].isActive}), stolenNote |-> null]
  ELSE stealOldest(vs, OldestFrom(vs, 2, 1))

\* allocateVoice without its second step, the search for an idle voice
allocateWithoutIdle(vs, midiNote) ==
  IF \E i \in 1..maxVoices : vs[i].isActive /\ vs[i].midiNote = midiNote
  THEN [voice |-> FirstSlot({i \in 1..maxVoices :
                                vs[i].isActive /\ vs[i].midiNote = midiNote}),
        stolenNote |-> null]
  ELSE stealOldest(vs, OldestFrom(vs, 2, 1))

\* allocateVoice looking for an idle voice before it looks for the note
allocateIdleFirst(vs, midiNote) ==
  IF \E i \in 1..maxVoices : ~vs[i].isActive
  THEN [voice |-> FirstSlot({i \in 1..maxVoices : ~vs[i].isActive}), stolenNote |-> null]
  ELSE IF \E i \in 1..maxVoices : vs[i].isActive /\ vs[i].midiNote = midiNote
  THEN [voice |-> FirstSlot({i \in 1..maxVoices :
                                vs[i].isActive /\ vs[i].midiNote = midiNote}),
        stolenNote |-> null]
  ELSE stealOldest(vs, OldestFrom(vs, 2, 1))

allocateVoice(vs, midiNote) ==
  IF \E i \in 1..maxVoices : vs[i].isActive /\ vs[i].midiNote = midiNote
  THEN [voice |-> FirstSlot({i \in 1..maxVoices :
                                vs[i].isActive /\ vs[i].midiNote = midiNote}),
        stolenNote |-> null]
  ELSE IF \E i \in 1..maxVoices : ~vs[i].isActive
  THEN [voice |-> FirstSlot({i \in 1..maxVoices : ~vs[i].isActive}), stolenNote |-> null]
  ELSE stealOldest(vs, OldestFrom(vs, 2, 1))

\* noteOn tuning every note in equal temperament
noteOnEqualTemperament(s, referenceVoice, midiNote) == midiToFrequency(midiNote)

\* noteOn without the stored reference: a first note is in equal temperament
noteOnWithoutMemory(s, referenceVoice, midiNote) ==
  IF referenceVoice = NoVoice THEN midiToFrequency(midiNote)
  ELSE getJustFrequency(s.voices[referenceVoice].frequency,
                        s.voices[referenceVoice].midiNote, midiNote)

\* noteOn, the frequency of the new note
noteOnFrequency(s, referenceVoice, midiNote) ==
  IF referenceVoice = NoVoice
  THEN IF s.lastBassFrequency # NoFreq /\ s.lastBassMidiNote # null
       THEN IF midiNote = s.lastBassMidiNote THEN s.lastBassFrequency
            ELSE getJustFrequency(s.lastBassFrequency, s.lastBassMidiNote, midiNote)
       ELSE midiToFrequency(midiNote)
  ELSE getJustFrequency(s.voices[referenceVoice].frequency,
                        s.voices[referenceVoice].midiNote, midiNote)

\* noteOn, "Allocate and start voice" and the object returned
noteOnStart(s, referenceVoice, midiNote, frequency, allocation, stored) ==
  [s   |-> [s EXCEPT !.voices[allocation.voice] =
              VoiceStart(s.voices[allocation.voice], midiNote, frequency, s.now,
                 IF referenceVoice # NoVoice
                 THEN s.voices[referenceVoice].midiNote ELSE midiNote,
                 IF referenceVoice # NoVoice
                 THEN s.voices[referenceVoice].frequency ELSE frequency),
              !.timers = setTimeouts(s, {i \in {allocation.voice} :
                                          s.voices[i].isActive}, "start")],
   ret |-> [midiNote |-> midiNote, frequency |-> frequency,
            voice |-> allocation.voice, stolenNote |-> allocation.stolenNote,
            usedStoredReference |-> stored, reference |-> referenceVoice]]

\* noteOn leaving the reference memory alone
noteOnWithoutStore(s, referenceVoice, midiNote, frequency) ==
  noteOnStart(s, referenceVoice, midiNote, frequency,
              allocateVoice(s.voices, midiNote),
              referenceVoice = NoVoice /\ s.lastBassFrequency # NoFreq
                 /\ s.lastBassMidiNote # null)

\* noteOn storing every note as the new reference
noteOnAlwaysStoring(s, referenceVoice, midiNote, frequency) ==
  noteOnStart([s EXCEPT !.lastBassFrequency = frequency,
                        !.lastBassMidiNote = midiNote],
              referenceVoice, midiNote, frequency,
              allocateVoice(s.voices, midiNote),
              referenceVoice = NoVoice /\ s.lastBassFrequency # NoFreq
                 /\ s.lastBassMidiNote # null)

\* noteOn, "This becomes the new reference, store it"
noteOnStore(s, referenceVoice, midiNote, frequency) ==
  noteOnStart(IF referenceVoice = NoVoice
              THEN [s EXCEPT !.lastBassFrequency = frequency,
                             !.lastBassMidiNote = midiNote]
              ELSE s,
              referenceVoice, midiNote, frequency,
              allocateVoice(s.voices, midiNote),
              referenceVoice = NoVoice /\ s.lastBassFrequency # NoFreq
                 /\ s.lastBassMidiNote # null)

noteOnTuned(g, midiNote) ==
  noteOnStore(g.s, g.ref, midiNote, noteOnFrequency(g.s, g.ref, midiNote))

\* noteOn: the synth afterwards and the object returned.
noteOn(s, midiNote) == noteOnTuned(getReferenceVoice(s), midiNote)

bentReference(g) ==
  [s |-> g.s,
   freq |-> IF g.ref = NoVoice THEN NoFreq
            ELSE FBend(g.s.voices[g.ref].frequency,
                       g.s.pitchBendAmount * pitchBendRange)]

getReferenceFrequencyWithBend(s) == bentReference(getReferenceVoice(s))

\* the loop body of retuneToNewReference updating the tuning tracking only
retuneVoiceTrackingOnly(v, refNote, refFreq, mode) ==
  [v EXCEPT !.tunedToBassNote = refNote, !.tunedToBassFreq = refFreq]

\* retuneToNewReference, the body of its loop for one voice
retuneVoice(v, refNote, refFreq, mode) ==
  [(IF mode \in {"instant", "smooth"}
    THEN VoiceRetune(v, getJustFrequency(refFreq, refNote, v.midiNote), mode)
    ELSE v)
   EXCEPT !.tunedToBassNote = refNote, !.tunedToBassFreq = refFreq]

\* retuneToNewReference, the list it returns (with the pool index of each voice)
retunedNotes(vs, order, refNote, refFreq) ==
  [k \in 1..Len(order) |->
     [midiNote |-> vs[order[k]].midiNote,
      newFrequency |-> getJustFrequency(refFreq, refNote, vs[order[k]].midiNote),
      voice |-> order[k]]]

retuneAll(s, refNote, refFreq) ==
  [s |-> [s EXCEPT !.voices =
            [i \in 1..maxVoices |->
               IF s.voices[i].isActive /\ s.voices[i].midiNote # refNote
               THEN retuneVoice(s.voices[i], refNote, refFreq, s.retuneMode)
               ELSE s.voices[i]]],
   ret |-> retunedNotes(s.voices,
             SelectSeq(SlotSeq, LAMBDA i : s.voices[i].isActive
                                           /\ s.voices[i].midiNote # refNote),
             refNote, refFreq)]

retuneTo(g) ==
  IF g.ref = NoVoice THEN [s |-> g.s, ret |-> <<>>]
  ELSE retuneAll(g.s, g.s.voices[g.ref].midiNote, g.s.voices[g.ref].frequency)

\* retuneToNewReference: the synth afterwards and the list returned.
retuneToNewReference(s) == retuneTo(getReferenceVoice(s))

\* _releaseNote, the voices it releases.  An empty set stands for both null
\* and the empty array, which the code treats alike.
voicesToReleaseOf(vs, midiNote, sustainedVoicesToRelease) ==
  {i \in 1..maxVoices :
     /\ vs[i].isActive
     /\ vs[i].midiNote = midiNote
     /\ (sustainedVoicesToRelease # {} => i \in sustainedVoicesToRelease)}

withReleased(r, voicesToRelease, currentReference) ==
  [s |-> r.s, ret |-> r.ret, released |-> voicesToRelease,
   reference |-> currentReference]

\* _releaseNote retuning after every release of the reference
releaseRetuneInEveryMode(s, voicesToRelease, wasReference, currentReference) ==
  IF wasReference
  THEN withReleased(retuneToNewReference(s), voicesToRelease, currentReference)
  ELSE [s |-> s, ret |-> <<>>, released |-> voicesToRelease,
        reference |-> currentReference]

\* _releaseNote, "If reference changed and retune mode is enabled"
releaseRetune(s, voicesToRelease, wasReference, currentReference) ==
  IF wasReference /\ s.retuneMode # "static"
  THEN withReleased(retuneToNewReference(s), voicesToRelease, currentReference)
  ELSE [s |-> s, ret |-> <<>>, released |-> voicesToRelease,
        reference |-> currentReference]

\* _releaseNote, marking the voices inactive, clearing the sticky reference
\* and applying the release envelopes
releaseVoices(s, voicesToRelease, wasReference, currentReference) ==
  releaseRetune(
    [s EXCEPT !.voices =
                [i \in 1..maxVoices |->
                   IF i \in voicesToRelease
                   THEN VoiceRelease([s.voices[i] EXCEPT !.isActive = FALSE])
                   ELSE s.voices[i]],
              !.timers = setTimeouts(s, voicesToRelease, "release"),
              !.currentReferenceVoice =
                IF s.referenceMode \in {"random", "lattice"} /\ wasReference
                THEN NoVoice ELSE s.currentReferenceVoice],
    voicesToRelease, wasReference, currentReference)

\* _releaseNote storing the reference's frequency without the pitch bend
storeLastReferenceUnbent(b, currentReference) ==
  [b.s EXCEPT !.lastBassFrequency = b.s.voices[currentReference].frequency,
              !.lastBassMidiNote = b.s.voices[currentReference].midiNote]

\* _releaseNote, "store its current audible frequency (with pitch bend)"
storeLastReference(b, currentReference) ==
  IF b.freq # NoFreq
  THEN [b.s EXCEPT !.lastBassFrequency = b.freq,
                   !.lastBassMidiNote = b.s.voices[currentReference].midiNote]
  ELSE b.s

releaseKnown(s, currentReference, voicesToRelease, wasReference) ==
  releaseVoices(IF wasReference /\ currentReference # NoVoice
                THEN storeLastReference(getReferenceFrequencyWithBend(s),
                                        currentReference)
                ELSE s,
                voicesToRelease, wasReference, currentReference)

wasReferenceOf(vs, currentReference, voicesToRelease) ==
  \E i \in voicesToRelease :
     currentReference # NoVoice /\ vs[i].midiNote = vs[currentReference].midiNote

releaseFound(g, voicesToRelease) ==
  releaseKnown(g.s, g.ref, voicesToRelease,
               wasReferenceOf(g.s.voices, g.ref, voicesToRelease))

\* _releaseNote(midiNote, sustainedVoicesToRelease): the synth afterwards, the
\* list returned, the voices released and the voice getReferenceVoice returned
\* before they were released.
releaseNote(s, midiNote, sustainedVoicesToRelease) ==
  IF voicesToReleaseOf(s.voices, midiNote, sustainedVoicesToRelease) = {}
  THEN [s |-> s, ret |-> <<>>, released |-> {}, reference |-> NoVoice]
  ELSE releaseFound(getReferenceVoice(s),
         voicesToReleaseOf(s.voices, midiNote, sustainedVoicesToRelease))

\* applyPitchBend bending the sounding frequency instead of the stored one
applyPitchBendCumulative(s, amount) ==
  [s EXCEPT !.pitchBendAmount = amount,
            !.voices = [i \in 1..maxVoices |->
               IF s.voices[i].isActive /\ s.voices[i].oscFreq # NoFreq
               THEN [s.voices[i] EXCEPT
                       !.oscFreq = FBend(s.voices[i].oscFreq,
                                         amount * pitchBendRange)]
               ELSE s.voices[i]]]

applyPitchBend(s, amount) ==
  [s EXCEPT !.pitchBendAmount = amount,
            !.voices = [i \in 1..maxVoices |->
               IF s.voices[i].isActive /\ s.voices[i].oscFreq # NoFreq
               THEN [s.voices[i] EXCEPT
                       !.oscFreq = FBend(s.voices[i].frequency,
                                         amount * pitchBendRange)]
               ELSE s.voices[i]]]

\* resetReference leaving the stored reference in place
resetKeepingMemory(s) ==
  [s EXCEPT !.voices = [i \in 1..maxVoices |-> VoiceStop(s.voices[i])],
            !.timers = setTimeouts(s, 1..maxVoices, "stop"),
            !.pitchBendAmount = 0,
            !.currentReferenceVoice = NoVoice]

resetReference(s) ==
  [s EXCEPT !.voices = [i \in 1..maxVoices |-> VoiceStop(s.voices[i])],
            !.timers = setTimeouts(s, 1..maxVoices, "stop"),
            !.pitchBendAmount = 0,
            !.lastBassFrequency = NoFreq,
            !.lastBassMidiNote = null,
            !.currentReferenceVoice = NoVoice]

reportedReference(g) ==
  [s |-> g.s,
   referenceNote |-> IF g.ref = NoVoice THEN null ELSE g.s.voices[g.ref].midiNote]

\* getState, for its effect on the synth and the reference it reports
getState(s) == reportedReference(getReferenceVoice(s))

\* ---------------------------------------------------------------- BaseSynth
handleSustainPedalDown(s) == [s EXCEPT !.sustainPedalDown = TRUE]

\* Set.add on a Set kept in insertion order
SetAdd(seq, x) ==
  IF \E k \in 1..Len(seq) : seq[k] = x THEN seq ELSE Append(seq, x)

\* handleNoteOffWithSustain releasing at once, pedal or not
noteOffIgnoringPedal(s, midiNote, voice) == [s |-> s, ret |-> TRUE]

\* handleNoteOffWithSustain: the synth afterwards and the boolean returned
handleNoteOffWithSustain(s, midiNote, voice) ==
  IF s.sustainPedalDown
  THEN [s |-> [s EXCEPT !.sustainedNotes = SetAdd(s.sustainedNotes, midiNote),
                        !.sustainedVoices =
                           IF voice # NoVoice THEN s.sustainedVoices \cup {voice}
                           ELSE s.sustainedVoices],
        ret |-> FALSE]
  ELSE [s |-> s, ret |-> TRUE]

\* One _releaseNote call that released voices, for the record of the handler:
\* the pool before and after it, the reference the call found before releasing,
\* the sticky reference after it, the list it returned and the reference
\* memory (lastBassFrequency, lastBassMidiNote) after it.
ReleaseCall(s, r, midiNote) ==
  [midiNote |-> midiNote, released |-> r.released, reference |-> r.reference,
   before |-> s.voices, after |-> r.s.voices,
   pinned |-> r.s.currentReferenceVoice, retuned |-> r.ret,
   lastBassFrequency |-> r.s.lastBassFrequency,
   lastBassMidiNote |-> r.s.lastBassMidiNote]

CallsWith(calls, s, r, midiNote) ==
  IF r.released = {} THEN calls ELSE Append(calls, ReleaseCall(s, r, midiNote))

\* allRetunedNotes.push(...retunedNotes)
pushRetuned(acc, r, midiNote) ==
  [s |-> r.s, ret |-> acc.ret \o r.ret, released |-> acc.released \cup r.released,
   calls |-> CallsWith(acc.calls, acc.s, r, midiNote)]

RECURSIVE ReleaseEach(_, _, _, _)
\* notesToRelease.forEach(note => _releaseNote(note, voicesToRelease))
ReleaseEach(acc, notesToRelease, k, voicesToRelease) ==
  IF k > Len(notesToRelease) THEN acc
  ELSE ReleaseEach(pushRetuned(acc, releaseNote(acc.s, notesToRelease[k],
                                                voicesToRelease),
                               notesToRelease[k]),
                   notesToRelease, k + 1, voicesToRelease)

\* handleSustainPedalUp releasing every sustained note, held again or not
pedalUpIgnoringKeys(s) ==
  ReleaseEach([s |-> [s EXCEPT !.sustainPedalDown = FALSE,
                               !.sustainedNotes = <<>>,
                               !.sustainedVoices = {}],
               ret |-> <<>>, released |-> {}, calls |-> <<>>],
              s.sustainedNotes, 1, s.sustainedVoices)

\* handleSustainPedalUp forgetting the sustained notes without releasing them
pedalUpForgetting(s) ==
  [s |-> [s EXCEPT !.sustainPedalDown = FALSE,
                   !.sustainedNotes = <<>>,
                   !.sustainedVoices = {}],
   ret |-> <<>>, released |-> {}, calls |-> <<>>]

handleSustainPedalUp(s) ==
  ReleaseEach([s |-> [s EXCEPT !.sustainPedalDown = FALSE,
                               !.sustainedNotes = <<>>,
                               !.sustainedVoices = {}],
               ret |-> <<>>, released |-> {}, calls |-> <<>>],
              SelectSeq(s.sustainedNotes, LAMBDA note : note \notin s.keysHeldDown),
              1, s.sustainedVoices)

\* -------------------------------------------------------- Synth (monosynth)
\* The Synth object: its oscillator (present or null), the note tracking of
\* its constructor and the sustain fields of BaseSynth.
NewSynth ==
  [oscillator |-> FALSE, currentNote |-> null, currentFrequency |-> NoFreq,
   lastPlayedNote |-> null, lastPlayedFrequency |-> NoFreq,
   sustainPedalDown |-> FALSE, sustainedNotes |-> <<>>, sustainedVoices |-> {},
   keysHeldDown |-> {}]

\* no note returned
NoNote ==
  [midiNote |-> null, frequency |-> NoFreq, intervalInfo |-> FALSE,
   referenceMidi |-> null, referenceFreq |-> NoFreq]

\* the App before any handler has run
NoMono ==
  [synth |-> NewSynth, op |-> "init", arg |-> null, ret |-> NoNote,
   before |-> NewSynth, previous |-> "init"]

\* Synth.noteOff.  Its setTimeout callback disconnects the nodes the synth
\* had when the timer was set and touches no field.
monoNoteOff(m) ==
  IF ~m.oscillator THEN m
  ELSE [m EXCEPT !.lastPlayedNote =
                    IF m.currentNote # null THEN m.currentNote ELSE @,
                 !.lastPlayedFrequency =
                    IF m.currentNote # null THEN m.currentFrequency ELSE @,
                 !.oscillator = FALSE,
                 !.currentNote = null,
                 !.currentFrequency = NoFreq]

\* Synth.noteOn, the frequency of the note once the sounding one is stopped
monoFrequency(m, midiNote) ==
  IF m.lastPlayedNote = null THEN midiToFrequency(midiNote)
  ELSE getJustFrequency(m.lastPlayedFrequency, m.lastPlayedNote, midiNote)

\* Synth.noteOn, from "Create oscillator" on, and the object returned;
\* intervalInfo is given by whether it is non-null and by its reference
monoStart(m, midiNote, frequency) ==
  [s   |-> [m EXCEPT !.oscillator = TRUE, !.currentNote = midiNote,
                     !.currentFrequency = frequency],
   ret |-> [midiNote |-> midiNote, frequency |-> frequency,
            intervalInfo |-> m.lastPlayedNote # null,
            referenceMidi |-> m.lastPlayedNote,
            referenceFreq |-> m.lastPlayedFrequency]]

monoNoteOnStopped(m, midiNote) == monoStart(m, midiNote, monoFrequency(m, midiNote))

\* Synth.noteOn: "Stop any currently playing note", then the rest
monoNoteOn(m, midiNote) == monoNoteOnStopped(monoNoteOff(m), midiNote)

\* Synth._releaseNote
monoReleaseNote(m, midiNote) ==
  IF m.currentNote = midiNote THEN monoNoteOff(m) ELSE m

\* Synth.resetReference
monoResetReference(m) ==
  [m EXCEPT !.lastPlayedNote = null, !.lastPlayedFrequency = NoFreq]

RECURSIVE monoReleaseEach(_, _, _)
\* handleSustainPedalUp, the forEach over notesToRelease
monoReleaseEach(m, notesToRelease, k) ==
  IF k > Len(notesToRelease) THEN m
  ELSE monoReleaseEach(monoReleaseNote(m, notesToRelease[k]), notesToRelease, k + 1)

\* BaseSynth.handleSustainPedalUp on the Synth
monoSustainPedalUp(m) ==
  monoReleaseEach([m EXCEPT !.sustainPedalDown = FALSE, !.sustainedNotes = <<>>,
                            !.sustainedVoices = {}],
                  SelectSeq(m.sustainedNotes, LAMBDA note : note \notin m.keysHeldDown),
                  1)

\* App.handleNoteOff, what it does once it has found the note sounding
monoNoteOffSounding(r) == IF r.ret THEN monoNoteOff(r.s) ELSE r.s

\* App.handleNoteOff
monoHandleNoteOff(m, midiNote) ==
  IF m.currentNote = midiNote
  THEN monoNoteOffSounding(handleNoteOffWithSustain(m, midiNote, NoVoice))
  ELSE m

\* -------------------------------------------------------------------- state
vars == <<voices, currentReferenceVoice, lastBassFrequency, lastBassMidiNote,
          pitchBendAmount, referenceMode, retuneMode, sustainPedalDown,
          sustainedNotes, sustainedVoices, keysHeldDown, budget, last, hcOut,
          timers, just, mono>>

\* The audio clock.  The code only ever compares two noteOnTime values, so the
\* model keeps them up to order: after each handler the times in the pool are
\* renumbered 0, 1, 2, ... in their order (equal times stay equal).  The latest
\* note-on time is always still in the pool, so it stands for currentTime at the
\* last note-on; the clock may or may not have advanced since.
NoteOnTimes(vs) == {vs[i].noteOnTime : i \in 1..maxVoices} \ {null}

Now == IF NoteOnTimes(voices) = {} THEN 0
       ELSE CHOOSE t \in NoteOnTimes(voices) : \A u \in NoteOnTimes(voices) : u <= t

Renumbered(vs) ==
  [i \in 1..maxVoices |->
     IF vs[i].noteOnTime = null THEN vs[i]
     ELSE [vs[i] EXCEPT !.noteOnTime =
             Cardinality({u \in NoteOnTimes(vs) : u < vs[i].noteOnTime})]]

\* The synth as the handler finds it, at audio time t, with random source rs.
Synth(rs, t) ==
  [voices |-> voices, currentReferenceVoice |-> currentReferenceVoice,
   lastBassFrequency |-> lastBassFrequency, lastBassMidiNote |-> lastBassMidiNote,
   pitchBendAmount |-> pitchBendAmount, referenceMode |-> referenceMode,
   retuneMode |-> retuneMode, sustainPedalDown |-> sustainPedalDown,
   sustainedNotes |-> sustainedNotes, sustainedVoices |-> sustainedVoices,
   keysHeldDown |-> keysHeldDown, timers |-> timers, rnd |-> rs, now |-> t]

Commit(s) ==
  /\ voices' = Renumbered(s.voices)
  /\ currentReferenceVoice' = s.currentReferenceVoice
  /\ lastBassFrequency' = s.lastBassFrequency
  /\ lastBassMidiNote' = s.lastBassMidiNote
  /\ pitchBendAmount' = s.pitchBendAmount
  /\ referenceMode' = s.referenceMode
  /\ retuneMode' = s.retuneMode
  /\ sustainPedalDown' = s.sustainPedalDown
  /\ sustainedNotes' = s.sustainedNotes
  /\ sustainedVoices' = s.sustainedVoices
  /\ keysHeldDown' = s.keysHeldDown
  /\ timers' = s.timers
  /\ budget' = budget - 1
  /\ UNCHANGED <<hcOut, just, mono>>

\* What Math.random returns in the calls a handler can make: only 'random'
\* mode calls it, at most once before the handler's first release (when no
\* sticky reference is set) and once after each release that leaves a voice
\* active, so never more often than voices are active (once for a note-on).
Draws(k) ==
  IF referenceMode = "random" THEN [1..k -> 0..(maxVoices - 1)]
  ELSE {[i \in 1..k |-> 0]}

ActiveCount == Len(ActiveSlots(voices))

NoInfo ==
  [midiNote |-> null, frequency |-> NoFreq, voice |-> NoVoice,
   stolenNote |-> null, usedStoredReference |-> FALSE, reference |-> NoVoice]

\* What a handler finds: the pool, the sustain sets and the sticky reference.
Found ==
  [voices |-> voices, sustainedNotes |-> sustainedNotes,
   sustainedVoices |-> sustainedVoices, keysHeldDown |-> keysHeldDown,
   currentReferenceVoice |-> currentReferenceVoice]

\* The record of the last handler: which it was, its argument, what it found
\* (before), what noteOn returned (info), the _releaseNote calls it made that
\* released voices, the retuned list it got, and the reference getState reported
\* at its end.  The note-on times in the recorded pools are those of the clock
\* before the handler.
Done(s, op, arg, info, calls, retuned, referenceNote) ==
  /\ Commit(s)
  /\ last' = [op |-> op, arg |-> arg, before |-> Found, info |-> info,
              calls |-> calls, retuned |-> retuned,
              referenceNote |-> referenceNote]

ReferenceModeInputs == {"bass", "random", "lattice", "harmonic"}
RetuneModeInputs == {"static", "smooth", "instant", "glide"}

\* PolyApp.initialize: new PolySynth(polyphony), init(), then the saved
\* reference and retune modes are applied.  `followed` says whether the
\* specification follows the setTimeout callbacks.
ConstructedWith(polyphony, n, followed) ==
  /\ voices = [i \in 1..polyphony |-> NewVoice]
  /\ currentReferenceVoice = NoVoice
  /\ lastBassFrequency = NoFreq
  /\ lastBassMidiNote = null
  /\ pitchBendAmount = 0
  /\ referenceMode \in {"bass", "random", "lattice"}
  /\ retuneMode \in {"static", "smooth", "instant"}
  /\ sustainPedalDown = FALSE
  /\ sustainedNotes = <<>>
  /\ sustainedVoices = {}
  /\ keysHeldDown = {}
  /\ budget = n
  /\ last = [op |-> "init", arg |-> null, before |-> Found, info |-> NoInfo,
             calls |-> <<>>, retuned |-> <<>>, referenceNote |-> null]
  /\ hcOut = null
  /\ timers = NoTimers(followed)
  /\ just = NoJust
  /\ mono = NoMono

Constructed(polyphony, n) == ConstructedWith(polyphony, n, FALSE)

\* ------------------------------------------------------------------ PolyApp
noteOnShown(r, st) ==
  Done(st.s, "noteOn", r.ret.midiNote, r.ret, <<>>, <<>>, st.referenceNote)

noteOnPlayed(r) == noteOnShown(r, getState(r.s))

HandleNoteOn(midiNote) ==
  /\ budget > 0
  /\ \E dt \in {0, 1}, rs \in Draws(1) :
       noteOnPlayed(noteOn([Synth(rs, Now + dt) EXCEPT
                              !.keysHeldDown = keysHeldDown \cup {midiNote}],
                           midiNote))

noteOffShown(r, st, calls, midiNote) ==
  Done(st.s, "noteOff", midiNote, NoInfo, calls, r.ret, st.referenceNote)

noteOffReleased(s, r, midiNote) ==
  noteOffShown(r, getState(r.s), CallsWith(<<>>, s, r, midiNote), midiNote)

noteOffChecked(h, midiNote, found) ==
  IF found /\ h.ret
  THEN noteOffReleased(h.s, releaseNote(h.s, midiNote, {}), midiNote)
  ELSE Done(h.s, IF found THEN "noteOffDeferred" ELSE "noteOffUnplayed",
            midiNote, NoInfo, <<>>, <<>>, null)

\* handleNoteOff consulting the pedal whether or not a voice plays the note
noteOffWithoutVoiceCheck(s, midiNote, voicesToCheck) ==
  noteOffChecked(handleNoteOffWithSustain(s, midiNote, NoVoice), midiNote, TRUE)

noteOffFor(s, midiNote, voicesToCheck) ==
  noteOffChecked(IF Len(voicesToCheck) > 0
                 THEN handleNoteOffWithSustain(s, midiNote,
                                               voicesToCheck[Len(voicesToCheck)])
                 ELSE [s |-> s, ret |-> FALSE],
                 midiNote, Len(voicesToCheck) > 0)

HandleNoteOff(midiNote) ==
  /\ budget > 0
  /\ \E rs \in Draws(IF ActiveCount < 2 THEN ActiveCount ELSE 2) :
       noteOffFor([Synth(rs, Now) EXCEPT
                     !.keysHeldDown = keysHeldDown \ {midiNote}],
                  midiNote,
                  SelectSeq(SlotSeq, LAMBDA i :
                     voices[i].isActive /\ voices[i].midiNote = midiNote))

pedalUpShown(r, st) ==
  Done(st.s, "pedalUp", null, NoInfo, r.calls, r.ret, st.referenceNote)

pedalUpReleased(r) == pedalUpShown(r, getState(r.s))

HandleSustainPedal(pedalDown) ==
  /\ budget > 0
  /\ \E rs \in Draws(ActiveCount) :
       IF pedalDown
       THEN Done(handleSustainPedalDown(Synth(rs, Now)), "pedalDown", null,
                 NoInfo, <<>>, <<>>, null)
       ELSE pedalUpReleased(handleSustainPedalUp(Synth(rs, Now)))

pitchBendShown(st, amount) ==
  Done(st.s, "pitchBend", amount, NoInfo, <<>>, <<>>, st.referenceNote)

pitchBendApplied(b, amount) ==
  pitchBendShown(IF b.freq # NoFreq THEN getState(b.s)
                 ELSE [s |-> b.s, referenceNote |-> null],
                 amount)

HandlePitchBend(amount) ==
  /\ budget > 0
  /\ \E rs \in Draws(1) :
       pitchBendApplied(
         getReferenceFrequencyWithBend(applyPitchBend(Synth(rs, Now), amount)),
         amount)

ResetReference ==
  /\ budget > 0
  /\ Done(resetReference(Synth(<<>>, Now)), "reset", null, NoInfo, <<>>, <<>>, null)

SetReferenceMode(mode) ==
  /\ budget > 0
  /\ Done(setReferenceMode(Synth(<<>>, Now), mode), "setReferenceMode", mode,
          NoInfo, <<>>, <<>>, null)

SetRetuneMode(mode) ==
  /\ budget > 0
  /\ Done(setRetuneMode(Synth(<<>>, Now), mode), "setRetuneMode", mode,
          NoInfo, <<>>, <<>>, null)

Init == Constructed(Polyphony, MaxSteps)

Next ==
  \/ \E n \in Notes : HandleNoteOn(n)
  \/ \E n \in Notes : HandleNoteOff(n)
  \/ \E d \in BOOLEAN : HandleSustainPedal(d)
  \/ \E a \in BendAmounts : HandlePitchBend(a)
  \/ ResetReference
  \/ \E m \in ReferenceModeInputs : SetReferenceMode(m)
  \/ \E m \in RetuneModeInputs : SetRetuneMode(m)

Spec == Init /\ [][Next]_vars


\* --------------------------------------------- the pedal followed further
\* The player's keys and the sustain pedal only, followed for PedalSteps
\* handlers: long enough for a note deferred by the pedal to be retriggered
\* or to have its voice stolen before the pedal is lifted.  The retune mode is
\* the one of the default settings; the reference mode is any.
InitPedal == Constructed(Polyphony, PedalSteps) /\ retuneMode = "smooth"

NextPedal ==
  \/ \E n \in Notes : HandleNoteOn(n)
  \/ \E n \in Notes : HandleNoteOff(n)
  \/ \E d \in BOOLEAN : HandleSustainPedal(d)

SpecPedal == InitPedal /\ [][NextPedal]_vars

\* ------------------------------------------------- the sticky references
\* The keys and the pedal in the two modes that pin a reference voice, with
\* the retune mode 'instant' and neither mode switch nor reset.
InitSticky ==
  /\ Constructed(Polyphony, StickySteps)
  /\ referenceMode \in {"random", "lattice"}
  /\ retuneMode = "instant"

NextSticky ==
  \/ \E n \in Notes : HandleNoteOn(n)
  \/ \E n \in Notes : HandleNoteOff(n)
  \/ \E d \in BOOLEAN : HandleSustainPedal(d)

SpecSticky == InitSticky /\ [][NextSticky]_vars

\* ------------------------------------------------ several notes sustained
\* The release specification in bass mode with instant retune, followed far
\* enough for one pedal-up to release two of three sounding notes.
InitList ==
  /\ Constructed(Polyphony + 1, ListSteps)
  /\ referenceMode = "bass"
  /\ retuneMode = "instant"

NextList ==
  \/ \E n \in Notes : HandleNoteOn(n)
  \/ \E n \in Notes : HandleNoteOff(n)
  \/ \E d \in BOOLEAN : HandleSustainPedal(d)

SpecList == InitList /\ [][NextList]_vars

\* ------------------------------------------------------------ triad chords
\* A pool with room for a triad, and the keys of the C major triad.
InitChord == Constructed(Polyphony + 1, ChordSteps)

NextChord ==
  \/ \E n \in ChordKeys : HandleNoteOn(n)
  \/ \E n \in ChordKeys : HandleNoteOff(n)
  \/ \E d \in BOOLEAN : HandleSustainPedal(d)

SpecChord == InitChord /\ [][NextChord]_vars

\* ----------------------------------------------------------------- retuning
\* A pool in which a voice other than the old and the new reference remains
\* after a release, so that a retune has a voice to retune; the keys are
\* those of the general specification, whose intervals do not add up.
InitRetune == Constructed(Polyphony + 1, RetuneSteps)

NextRetune ==
  \/ \E n \in Notes : HandleNoteOn(n)
  \/ \E n \in Notes : HandleNoteOff(n)
  \/ \E m \in RetuneModeInputs : SetRetuneMode(m)

SpecRetune == InitRetune /\ [][NextRetune]_vars

\* ----------------------------------------------------------------- releases
\* The pool of the retuning specification under the keys and the pedal, in
\* every reference and retune mode of the settings, followed far enough for a
\* pedal-up to release the reference of three sounding notes.
InitRelease == Constructed(Polyphony + 1, ReleaseSteps)

NextRelease ==
  \/ \E n \in Notes : HandleNoteOn(n)
  \/ \E n \in Notes : HandleNoteOff(n)
  \/ \E d \in BOOLEAN : HandleSustainPedal(d)

SpecRelease == InitRelease /\ [][NextRelease]_vars

\* ------------------------------------------------------- the fade timers
\* The keys and the reset button with the setTimeout callbacks of the voices
\* followed: a callback runs at any moment after it was set, before or after
\* the handlers that follow.
RunTimeout(t) ==
  /\ t \in timers.pending
  /\ voices' = [voices EXCEPT ![t.voice] = VoiceTimeout(@, t.kind)]
  /\ timers' = [timers EXCEPT !.pending = @ \ {t}]
  /\ UNCHANGED <<currentReferenceVoice, lastBassFrequency, lastBassMidiNote,
                 pitchBendAmount, referenceMode, retuneMode, sustainPedalDown,
                 sustainedNotes, sustainedVoices, keysHeldDown, budget, last,
                 hcOut, just, mono>>

InitTimers == ConstructedWith(Polyphony, TimerSteps, TRUE)

NextTimers ==
  \/ \E n \in Notes : HandleNoteOn(n)
  \/ \E n \in Notes : HandleNoteOff(n)
  \/ ResetReference
  \/ \E i \in 1..maxVoices, k \in {"start", "release", "stop"} :
        RunTimeout(Timer(i, k))

SpecTimers == InitTimers /\ [][NextTimers]_vars

\* ------------------------------------------- findHarmonicCenter on its own
\* Every pool of MaxChord voices in which each voice is idle or plays a note
\* of ChordNotes no other voice plays.
Arrangements ==
  {p \in [1..MaxChord -> ChordNotes \cup {null}] :
     \A i, j \in 1..MaxChord : (i # j /\ p[i] # null) => p[i] # p[j]}

PoolOf(p) ==
  [i \in 1..MaxChord |->
     IF p[i] = null THEN NewVoice
     ELSE VoiceStart(NewVoice, p[i], midiToFrequency(p[i]), 0, p[i],
                     midiToFrequency(p[i]))]

InitHC ==
  /\ voices \in {PoolOf(p) : p \in Arrangements}
  /\ currentReferenceVoice = NoVoice
  /\ lastBassFrequency = NoFreq
  /\ lastBassMidiNote = null
  /\ pitchBendAmount = 0
  /\ referenceMode = "lattice"
  /\ retuneMode = "static"
  /\ sustainPedalDown = FALSE
  /\ sustainedNotes = <<>>
  /\ sustainedVoices = {}
  /\ keysHeldDown = {}
  /\ budget = 0
  /\ last = [op |-> "init", arg |-> null, before |-> Found, info |-> NoInfo,
             calls |-> <<>>, retuned |-> <<>>, referenceNote |-> null]
  /\ hcOut = null
  /\ timers = NoTimers(FALSE)
  /\ just = NoJust
  /\ mono = NoMono

ApplyHarmonicCenter ==
  /\ hcOut = null
  /\ hcOut' = findHarmonicCenter(voices)
  /\ UNCHANGED <<voices, currentReferenceVoice, lastBassFrequency,
                 lastBassMidiNote, pitchBendAmount, referenceMode, retuneMode,
                 sustainPedalDown, sustainedNotes, sustainedVoices,
                 keysHeldDown, budget, last, timers, just, mono>>

SpecHC == InitHC /\ [][ApplyHarmonicCenter]_vars

\* --------------------------------------------- getJustFrequency on its own
\* getJustFrequency applied to a reference frequency, the reference's note
\* and a target note up to JustSpan semitones away, and then to its own
\* result with the two notes exchanged.
JustReferences == {40, 60, 69, 90}
JustFrequencies ==
  {midiToFrequency(60), midiToFrequency(69),
   FMul(midiToFrequency(60), 5, 4), FMul(midiToFrequency(69), 16, 15)}

\* no PolySynth in use: its pool as constructed, nothing left to handle
NoPolySynth ==
  /\ voices = [i \in 1..Polyphony |-> NewVoice]
  /\ currentReferenceVoice = NoVoice
  /\ lastBassFrequency = NoFreq
  /\ lastBassMidiNote = null
  /\ pitchBendAmount = 0
  /\ referenceMode = "bass"
  /\ retuneMode = "static"
  /\ sustainPedalDown = FALSE
  /\ sustainedNotes = <<>>
  /\ sustainedVoices = {}
  /\ keysHeldDown = {}
  /\ last = [op |-> "init", arg |-> null, before |-> Found, info |-> NoInfo,
             calls |-> <<>>, retuned |-> <<>>, referenceNote |-> null]
  /\ hcOut = null
  /\ timers = NoTimers(FALSE)

InitJust ==
  /\ NoPolySynth
  /\ budget = 0
  /\ mono = NoMono
  /\ \E f \in JustFrequencies, n \in JustReferences, i \in (-JustSpan)..JustSpan :
        just = [given |-> f, frequency |-> f, referenceMidi |-> n,
                targetMidi |-> n + i, applied |-> 0]

ApplyJustFrequency ==
  /\ just.applied < 2
  /\ just' = [just EXCEPT
                !.frequency = getJustFrequency(just.frequency, just.referenceMidi,
                                               just.targetMidi),
                !.referenceMidi = just.targetMidi,
                !.targetMidi = just.referenceMidi,
                !.applied = @ + 1]
  /\ UNCHANGED <<voices, currentReferenceVoice, lastBassFrequency,
                 lastBassMidiNote, pitchBendAmount, referenceMode, retuneMode,
                 sustainPedalDown, sustainedNotes, sustainedVoices,
                 keysHeldDown, budget, last, hcOut, timers, mono>>

SpecJust == InitJust /\ [][ApplyJustFrequency]_vars

\* ---------------------------------------------------------- the monosynth
\* App with its Synth: the keys, the sustain pedal and the reset button.
MonoDone(r, op, arg) ==
  /\ budget > 0
  /\ budget' = budget - 1
  /\ mono' = [synth |-> r.s, op |-> op, arg |-> arg, ret |-> r.ret,
              before |-> mono.synth, previous |-> mono.op]
  /\ UNCHANGED <<voices, currentReferenceVoice, lastBassFrequency,
                 lastBassMidiNote, pitchBendAmount, referenceMode, retuneMode,
                 sustainPedalDown, sustainedNotes, sustainedVoices,
                 keysHeldDown, last, hcOut, timers, just>>

MonoHandleNoteOn(midiNote) ==
  MonoDone(monoNoteOn(mono.synth, midiNote), "noteOn", midiNote)

MonoHandleNoteOff(midiNote) ==
  MonoDone([s |-> monoHandleNoteOff(mono.synth, midiNote), ret |-> NoNote],
           "noteOff", midiNote)

MonoHandleSustainPedal(pedalDown) ==
  MonoDone([s |-> IF pedalDown THEN handleSustainPedalDown(mono.synth)
                  ELSE monoSustainPedalUp(mono.synth),
            ret |-> NoNote],
           IF pedalDown THEN "pedalDown" ELSE "pedalUp", null)

MonoResetReference ==
  MonoDone([s |-> monoResetReference(mono.synth), ret |-> NoNote], "reset", null)

InitMono ==
  /\ NoPolySynth
  /\ budget = MonoSteps
  /\ just = NoJust
  /\ mono = NoMono

NextMono ==
  \/ \E n \in Notes : MonoHandleNoteOn(n)
  \/ \E n \in Notes : MonoHandleNoteOff(n)
  \/ \E d \in BOOLEAN : MonoHandleSustainPedal(d)
  \/ MonoResetReference

SpecMono == InitMono /\ [][NextMono]_vars


\* =============================================================== properties
Slots == 1..maxVoices
Active(vs) == {i \in 1..Len(vs) : vs[i].isActive}
Playing(vs, n) == {i \in Active(vs) : vs[i].midiNote = n}
NotesOf(vs) == {vs[i].midiNote : i \in Active(vs)}
Range(seq) == {seq[k] : k \in 1..Len(seq)}
\* the voices some _releaseNote call of the last handler released
Released == UNION {last.calls[k].released : k \in 1..Len(last.calls)}

\* ----------------------------------------------------------------------- C1
\* C1: when the pedal is lifted, a voice is released if and only if it is
\* active, it is in sustainedVoices, the note it plays is in sustainedNotes
\* and that note's key is not in keysHeldDown at that moment.
PedalUpReleasesDeferredUnheld ==
  [][last'.op = "pedalUp" =>
       \A i \in Slots :
          (voices[i].isActive /\ ~voices'[i].isActive)
          <=> (/\ voices[i].isActive
               /\ i \in sustainedVoices
               /\ voices[i].midiNote \in Range(sustainedNotes)
               /\ voices[i].midiNote \notin keysHeldDown)]_vars

\* The pedal is lifted after the voice of a deferred note was stolen for a key
\* that is still held: the voice is in sustainedVoices and stays active.
PedalUpAfterSteal ==
  /\ last.op = "pedalUp"
  /\ \E i \in last.before.sustainedVoices :
        /\ voices[i].isActive
        /\ voices[i].midiNote \notin Range(last.before.sustainedNotes)

\* ----------------------------------------------------------------------- C2
\* the reference the current mode selects in the pool the handler finds
SelectedByMode(ref) ==
  CASE referenceMode = "random" ->
         IF currentReferenceVoice \in Active(voices)
         THEN ref = currentReferenceVoice ELSE ref \in Active(voices)
    [] referenceMode = "lattice" ->
         IF currentReferenceVoice \in Active(voices)
         THEN ref = currentReferenceVoice ELSE ref = findHarmonicCenter(voices)
    [] OTHER ->
         /\ ref \in Active(voices)
         /\ \A j \in Active(voices) : voices[ref].midiNote <= voices[j].midiNote

\* C2: a noteOn(n) that finds an active voice gives the new note the frequency
\* getJustFrequency(ref.frequency, ref.midiNote, n), ref being the voice the
\* reference mode selects in the pool as it is before the allocation, and the
\* started voice records ref's note and frequency as tunedToBassNote/Freq.
NoteOnTunesFromReference ==
  [][(last'.op = "noteOn" /\ Active(voices) # {}) =>
       /\ last'.info.reference \in Active(voices)
       /\ SelectedByMode(last'.info.reference)
       /\ Cardinality(Playing(voices', last'.arg)) = 1
       /\ \A v \in Playing(voices', last'.arg) :
            /\ voices'[v].frequency =
                 getJustFrequency(voices[last'.info.reference].frequency,
                                  voices[last'.info.reference].midiNote, last'.arg)
            /\ last'.info.frequency = voices'[v].frequency
            /\ voices'[v].tunedToBassNote = voices[last'.info.reference].midiNote
            /\ voices'[v].tunedToBassFreq = voices[last'.info.reference].frequency]_vars

\* A note-on took the voice of the reference itself (a steal) and was tuned
\* from the note that voice played until then, not in equal temperament.
NoteOnStoleItsReference ==
  /\ last.op = "noteOn"
  /\ last.info.reference # NoVoice
  /\ last.info.voice = last.info.reference
  /\ last.info.stolenNote # null
  /\ voices[last.info.voice].tunedToBassNote = last.info.stolenNote
  /\ voices[last.info.voice].frequency # midiToFrequency(last.arg)

\* ----------------------------------------------------------------------- C3
\* C3: allocateVoice(n) returns the active voice playing n, with no stolen
\* note, if there is one; otherwise an inactive voice, with no stolen note, if
\* there is one; it steals (returns an active voice and reports its note) only
\* when every voice is active and none plays n.
AllocationPriority ==
  [][last'.op = "noteOn" =>
       /\ last'.info.voice \in Playing(voices', last'.arg)
       /\ Playing(voices, last'.arg) # {} =>
            /\ last'.info.voice \in Playing(voices, last'.arg)
            /\ last'.info.stolenNote = null
       /\ (Playing(voices, last'.arg) = {} /\ Active(voices) # Slots) =>
            /\ last'.info.voice \notin Active(voices)
            /\ last'.info.stolenNote = null
       /\ (Playing(voices, last'.arg) = {} /\ Active(voices) = Slots) =>
            /\ last'.info.stolenNote # null
            /\ last'.info.stolenNote = voices[last'.info.voice].midiNote]_vars

\* With every voice active, a note-on of a note already playing retriggered
\* its voice instead of stealing one.
RetriggerInFullPool ==
  /\ last.op = "noteOn"
  /\ Active(last.before.voices) = Slots
  /\ last.info.voice \in Playing(last.before.voices, last.arg)
  /\ last.info.stolenNote = null

\* ----------------------------------------------------------------------- C4
\* C4: when every voice is active and none plays n, allocateVoice(n) returns
\* a voice whose noteOnTime no other voice's is below and reports the note it
\* was playing; every start, a retrigger included, gives the started voice
\* the latest noteOnTime of the pool.
StealsOldest ==
  [][last'.op = "noteOn" =>
       /\ \A j \in Active(voices') :
            voices'[j].noteOnTime <= voices'[last'.info.voice].noteOnTime
       /\ (Active(voices) = Slots /\ Playing(voices, last'.arg) = {}) =>
            /\ \A j \in Slots :
                 voices[last'.info.voice].noteOnTime <= voices[j].noteOnTime
            /\ last'.info.stolenNote = voices[last'.info.voice].midiNote]_vars

\* A steal took a later slot of the pool, because the first slot had been
\* retriggered since and was no longer the oldest.
StoleAfterRetrigger ==
  /\ last.op = "noteOn"
  /\ last.info.stolenNote # null
  /\ last.info.voice # 1
  /\ last.before.voices[last.info.voice].noteOnTime
       < last.before.voices[1].noteOnTime

\* ----------------------------------------------------------------------- C5
\* C5: after every noteOn(n) exactly one active voice plays n, and no more
\* than maxVoices voices are active.
NoteOnNeverRejected ==
  /\ Cardinality(Active(voices)) <= maxVoices
  /\ last.op = "noteOn" => Cardinality(Playing(voices, last.arg)) = 1

\* A note-on that found the pool exhausted: it stole a voice, the note sounds
\* and the stolen note no longer does.
NoteOnInExhaustedPool ==
  /\ last.op = "noteOn"
  /\ Active(last.before.voices) = Slots
  /\ last.arg \notin NotesOf(last.before.voices)
  /\ Cardinality(Playing(voices, last.arg)) = 1
  /\ last.info.stolenNote \notin NotesOf(voices)


\* ----------------------------------------------------------------------- C6
\* the lowest note an active voice plays, null when none is active
LowestNote(vs) ==
  IF Active(vs) = {} THEN null
  ELSE CHOOSE n \in NotesOf(vs) : \A m \in NotesOf(vs) : n <= m

\* C6: in 'bass' mode, after any handlers (note-ons, note-offs, pedal moves,
\* steals), getReferenceVoice() returns the active voice with the lowest
\* midiNote and getState() reports that note, null when no voice is active;
\* with the notes {60, 64, 67} active it is 60, and 64 once 60 is released.
BassReferenceIsLowest ==
  referenceMode = "bass" =>
    /\ getState(Synth(<<>>, Now)).referenceNote = LowestNote(voices)
    /\ IF Active(voices) = {}
       THEN getReferenceVoice(Synth(<<>>, Now)).ref = NoVoice
       ELSE /\ getReferenceVoice(Synth(<<>>, Now)).ref \in Active(voices)
            /\ voices[getReferenceVoice(Synth(<<>>, Now)).ref].midiNote
                 = LowestNote(voices)
    /\ last.op \in {"noteOn", "noteOff", "pedalUp"} =>
         last.referenceNote = LowestNote(voices)
    /\ NotesOf(voices) = {60, 64, 67} =>
         getState(Synth(<<>>, Now)).referenceNote = 60
    /\ (/\ last.op = "noteOff"
        /\ last.arg = 60
        /\ NotesOf(last.before.voices) = {60, 64, 67}
        /\ NotesOf(voices) = {64, 67}) => last.referenceNote = 64

\* In bass mode the 60 of the sounding triad {60, 64, 67} was released and
\* the handler reported 64 as the reference.
BassAfterReleasingLowest ==
  /\ referenceMode = "bass"
  /\ last.op = "noteOff"
  /\ last.arg = 60
  /\ NotesOf(last.before.voices) = {60, 64, 67}
  /\ NotesOf(voices) = {64, 67}
  /\ last.referenceNote = 64

\* ----------------------------------------------------------------------- C7
\* A handler other than a mode switch or a reset runs in 'random' mode with
\* the sticky reference on an active voice, and releases no voice playing
\* that voice's note.
StickyStep ==
  /\ referenceMode = "random"
  /\ currentReferenceVoice \in Active(voices)
  /\ last'.op \notin {"setReferenceMode", "reset"}
  /\ \A k \in 1..Len(last'.calls) :
        last'.calls[k].midiNote # voices[currentReferenceVoice].midiNote

ConsonanceWeight(d) ==
  CASE d % 12 = 0  -> 10
    [] d % 12 = 7  -> 9
    [] d % 12 = 5  -> 8
    [] d % 12 = 4  -> 7
    [] d % 12 = 3  -> 7
    [] d % 12 = 9  -> 6
    [] d % 12 = 8  -> 6
    [] d % 12 = 2  -> 3
    [] d % 12 = 10 -> 3
    [] d % 12 = 11 -> 2
    [] d % 12 = 1  -> 1
    [] d % 12 = 6  -> 1

RECURSIVE WeightSum(_, _, _)
WeightSum(vs, c, others) ==
  IF others = {} THEN 0
  ELSE LET u == CHOOSE u \in others : TRUE
       IN  ConsonanceWeight(vs[u].midiNote - vs[c].midiNote)
           + WeightSum(vs, c, others \ {u})

\* the sum of the weights of candidate c against all other active voices
Consonance(vs, c) == WeightSum(vs, c, Active(vs) \ {c})

\* C8: findHarmonicCenter returns the active voice whose sum of consonance
\* weights against all other active voices is highest, the first such voice
\* in pool order (none when no voice is active): the voice playing 60 for the
\* active notes {60, 64, 67} and the voice playing 72 for {64, 67, 72},
\* whichever slots hold the notes.
HarmonicCenterIsMostConsonant ==
  hcOut # null =>
    /\ Active(voices) = {} => hcOut = NoVoice
    /\ Active(voices) # {} =>
         /\ hcOut \in Active(voices)
         /\ \A j \in Active(voices) :
              Consonance(voices, j) <= Consonance(voices, hcOut)
         /\ \A j \in Active(voices) :
              j < hcOut => Consonance(voices, j) < Consonance(voices, hcOut)
    /\ NotesOf(voices) = {60, 64, 67} => voices[hcOut].midiNote = 60
    /\ NotesOf(voices) = {64, 67, 72} => voices[hcOut].midiNote = 72

\* findHarmonicCenter was given the triad {60, 64, 67} with the 60 in the last
\* slot of the pool and the 67 in the first, and returned the last slot.
HarmonicCenterInLastSlot ==
  /\ hcOut = MaxChord
  /\ NotesOf(voices) = {60, 64, 67}
  /\ voices[1].isActive /\ voices[1].midiNote = 67
  /\ voices[hcOut].midiNote = 60

\* ----------------------------------------------------------------------- C9
\* C9: in 'lattice' mode, starting from silence, after the three note-ons of
\* a C major triad in any order or inversion the reference getState reports
\* is the C.  (Three handlers have run and three notes sound: they were three
\* note-ons.)
LatticeReferenceIsTriadRoot ==
  (referenceMode = "lattice" /\ budget = ChordSteps - 3) =>
    /\ NotesOf(voices) = {60, 64, 67} => last.referenceNote = 60
    /\ NotesOf(voices) = {64, 67, 72} => last.referenceNote = 72

\* In 'lattice' mode the triad was played E, G, C from silence and the
\* reference reported after the third note-on is the E, the first note played.
LatticeKeepsFirstNote ==
  /\ referenceMode = "lattice"
  /\ budget = ChordSteps - 3
  /\ NotesOf(voices) = {60, 64, 67}
  /\ last.op = "noteOn"
  /\ last.arg = 60
  /\ last.referenceNote = 64

\* ---------------------------------------------------------------------- C10
\* the reference after the _releaseNote call c: the sticky reference in the
\* sticky modes, else the lowest active voice
ReferenceAfter(c) ==
  IF referenceMode \in {"random", "lattice"} THEN c.pinned
  ELSE CHOOSE i \in Active(c.after) :
         \A j \in Active(c.after) : c.after[i].midiNote <= c.after[j].midiNote

\* the call c released the voice that was the reference, other voices remain
\* active and the retune mode is not 'static'
Fires(c) ==
  /\ c.reference \in c.released
  /\ Active(c.after) # {}
  /\ retuneMode # "static"

\* every active voice but the new reference is listed once, with the
\* frequency of its interval from the new reference, and has that frequency
Retuned(c) ==
  /\ {c.retuned[k].voice : k \in 1..Len(c.retuned)}
       = Active(c.after) \ {ReferenceAfter(c)}
  /\ Len(c.retuned) = Cardinality(Active(c.after) \ {ReferenceAfter(c)})
  /\ c.after[ReferenceAfter(c)].frequency = c.before[ReferenceAfter(c)].frequency
  /\ \A k \in 1..Len(c.retuned) :
        /\ c.retuned[k].midiNote = c.after[c.retuned[k].voice].midiNote
        /\ c.retuned[k].newFrequency =
             getJustFrequency(c.after[ReferenceAfter(c)].frequency,
                              c.after[ReferenceAfter(c)].midiNote,
                              c.retuned[k].midiNote)
        /\ c.after[c.retuned[k].voice].frequency = c.retuned[k].newFrequency

\* no voice the call did not release changed its frequency, and the list
\* returned is empty
NotRetuned(c) ==
  /\ c.retuned = <<>>
  /\ \A i \in Slots \ c.released : c.after[i].frequency = c.before[i].frequency

\* C10: a release (a noteOff, or one of the releases of a pedal-up) retunes
\* exactly when it makes the current reference inactive, other voices remain
\* active and retuneMode is not 'static': then every remaining active voice
\* other than the new reference is retuned and listed once in the list
\* returned; otherwise no other voice's frequency changes and the list is
\* empty.
RetuneFiresOnReferenceRelease ==
  \A k \in 1..Len(last.calls) :
     IF Fires(last.calls[k]) THEN Retuned(last.calls[k])
     ELSE NotRetuned(last.calls[k])

\* C10 with the retune mode one of the three the synth knows.
RetuneFiresInKnownModes ==
  retuneMode \in {"static", "smooth", "instant"} => RetuneFiresOnReferenceRelease

\* With a retune mode that is neither 'static', 'smooth' nor 'instant', the
\* release of the reference returned a list naming a voice that still has
\* the frequency it had before.
ListedButNotRetuned ==
  /\ last.op = "noteOff"
  /\ retuneMode \notin {"static", "smooth", "instant"}
  /\ \E k \in 1..Len(last.calls) :
        /\ Fires(last.calls[k])
        /\ \E e \in 1..Len(last.calls[k].retuned) :
             /\ last.calls[k].after[last.calls[k].retuned[e].voice].frequency
                  # last.calls[k].retuned[e].newFrequency
             /\ last.calls[k].after[last.calls[k].retuned[e].voice].frequency
                  = last.calls[k].before[last.calls[k].retuned[e].voice].frequency

\* ---------------------------------------------------------------------- C11
\* the call c released the voice that was the reference and left voices active
ReleasedReference(c) == c.reference \in c.released /\ Active(c.after) # {}

\* C11: in 'instant' retune mode, right after a release of the reference that
\* leaves a new reference R, every remaining active voice has the frequency of
\* its just interval from R, and R has the frequency it had before.
InstantRetuneIsJust ==
  retuneMode = "instant" =>
    \A k \in 1..Len(last.calls) :
       ReleasedReference(last.calls[k]) =>
         /\ last.calls[k].after[ReferenceAfter(last.calls[k])].frequency
              = last.calls[k].before[ReferenceAfter(last.calls[k])].frequency
         /\ \A i \in Active(last.calls[k].after) :
              last.calls[k].after[i].frequency =
                getJustFrequency(
                  last.calls[k].after[ReferenceAfter(last.calls[k])].frequency,
                  last.calls[k].after[ReferenceAfter(last.calls[k])].midiNote,
                  last.calls[k].after[i].midiNote)

\* In 'instant' mode a pedal-up released the reference of three sounding
\* notes and moved the frequency of a voice that stayed.
PedalUpRetunedInstantly ==
  /\ last.op = "pedalUp"
  /\ retuneMode = "instant"
  /\ \E k \in 1..Len(last.calls) :
        /\ ReleasedReference(last.calls[k])
        /\ \E i \in Active(last.calls[k].after) :
              last.calls[k].after[i].frequency # last.calls[k].before[i].frequency

\* ---------------------------------------------------------------------- C12
\* the voice i kept its frequency and its tuning tracking from pool a to pool b
SameTuning(a, b, i) ==
  /\ b[i].frequency = a[i].frequency
  /\ b[i].tunedToBassNote = a[i].tunedToBassNote
  /\ b[i].tunedToBassFreq = a[i].tunedToBassFreq

\* C12: in 'static' retune mode a release of the reference leaves frequency,
\* tunedToBassNote and tunedToBassFreq of every other active voice as they
\* were and returns an empty list; a note started afterwards is tuned from the
\* reference found at its note-on, and starting it changes no other voice.
StaticReleaseKeepsTuning ==
  retuneMode = "static" =>
    /\ \A k \in 1..Len(last.calls) :
          ReleasedReference(last.calls[k]) =>
            /\ last.calls[k].retuned = <<>>
            /\ \A i \in Active(last.calls[k].after) :
                  SameTuning(last.calls[k].before, last.calls[k].after, i)
    /\ last.op \in {"noteOff", "pedalUp"} => last.retuned = <<>>
    /\ (last.op = "noteOn" /\ last.info.reference # NoVoice) =>
          /\ last.info.frequency =
               getJustFrequency(last.before.voices[last.info.reference].frequency,
                                last.before.voices[last.info.reference].midiNote,
                                last.arg)
          /\ \A i \in Slots \ {last.info.voice} :
                SameTuning(last.before.voices, voices, i)

\* In 'static' mode and bass mode a release of the reference left a voice
\* sounding that is not in tune with the new reference.
StaticReleaseLeftOldTuning ==
  /\ retuneMode = "static"
  /\ referenceMode = "bass"
  /\ last.op \in {"noteOff", "pedalUp"}
  /\ \E k \in 1..Len(last.calls) :
        /\ ReleasedReference(last.calls[k])
        /\ \E i \in Active(last.calls[k].after) :
              last.calls[k].after[i].frequency #
                getJustFrequency(
                  last.calls[k].after[ReferenceAfter(last.calls[k])].frequency,
                  last.calls[k].after[ReferenceAfter(last.calls[k])].midiNote,
                  last.calls[k].after[i].midiNote)

\* ---------------------------------------------------------------------- C13
\* C13: whenever a release (noteOff or pedal-up) releases the voice that is
\* the current reference, in every retune mode, lastBassMidiNote becomes that
\* voice's note and lastBassFrequency its stored frequency bent by
\* pitchBendAmount * pitchBendRange cents, both read before the voice is
\* marked inactive: the values are the released reference's, not those of the
\* reference that follows it.
ReleaseCapturesReference ==
  /\ \A k \in 1..Len(last.calls) :
        last.calls[k].reference \in last.calls[k].released =>
          /\ last.calls[k].lastBassMidiNote
               = last.calls[k].before[last.calls[k].reference].midiNote
          /\ last.calls[k].lastBassFrequency
               = FBend(last.calls[k].before[last.calls[k].reference].frequency,
                       pitchBendAmount * pitchBendRange)
  /\ (Len(last.calls) > 0
        /\ last.calls[Len(last.calls)].reference
              \in last.calls[Len(last.calls)].released) =>
       /\ lastBassMidiNote = last.calls[Len(last.calls)].lastBassMidiNote
       /\ lastBassFrequency = last.calls[Len(last.calls)].lastBassFrequency

\* With the pitch wheel deflected, a note-off released the reference while
\* another voice stayed, and the memory holds the bent frequency of the
\* released voice, which is neither its stored frequency nor the frequency of
\* the voice that stayed.
BentReferenceCaptured ==
  /\ last.op = "noteOff"
  /\ pitchBendAmount # 0
  /\ Len(last.calls) = 1
  /\ ReleasedReference(last.calls[1])
  /\ lastBassFrequency # last.calls[1].before[last.calls[1].reference].frequency
  /\ \A i \in Active(voices) : lastBassFrequency # voices[i].frequency
  /\ lastBassMidiNote = last.arg

\* ---------------------------------------------------------------------- C14
\* C14: a noteOn(n) that finds no voice active and the reference memory set
\* plays getJustFrequency(lastBassFrequency, lastBassMidiNote, n), which is
\* lastBassFrequency itself when n = lastBassMidiNote and 5/4 of it when n is
\* four semitones above, and reports that it used the stored reference.
FirstNoteTunesFromMemory ==
  [][(/\ last'.op = "noteOn"
      /\ Active(voices) = {}
      /\ lastBassFrequency # NoFreq
      /\ lastBassMidiNote # null) =>
       /\ last'.info.frequency =
            getJustFrequency(lastBassFrequency, lastBassMidiNote, last'.arg)
       /\ voices'[last'.info.voice].frequency = last'.info.frequency
       /\ last'.info.usedStoredReference
       /\ last'.arg = lastBassMidiNote => last'.info.frequency = lastBassFrequency
       /\ last'.arg = lastBassMidiNote + 4 =>
            last'.info.frequency = FMul(lastBassFrequency, 5, 4)]_vars

\* After noteOn(60), noteOff(60), the note 64 was started in silence at 5/4 of
\* the equal-tempered 60, which is not the equal-tempered 64.
MajorThirdFromMemory ==
  /\ last.op = "noteOn"
  /\ last.arg = 64
  /\ Active(last.before.voices) = {}
  /\ last.info.usedStoredReference
  /\ last.info.frequency = FMul(midiToFrequency(60), 5, 4)
  /\ last.info.frequency # midiToFrequency(64)
  /\ voices[last.info.voice].frequency = last.info.frequency

\* ---------------------------------------------------------------------- C15
\* C15: a noteOn(n) that finds no voice active and the reference memory empty
\* plays the equal-temperament frequency 440 * 2^((n-69)/12); and every
\* noteOn that finds no voice active, with or without memory, stores n and the
\* frequency it plays as lastBassMidiNote and lastBassFrequency.
FirstNoteEqualTemperedAndStored ==
  [][(last'.op = "noteOn" /\ Active(voices) = {}) =>
       /\ (lastBassFrequency = NoFreq \/ lastBassMidiNote = null) =>
            /\ last'.info.frequency = Freq((last'.arg - 69) * 100, 440, 1)
            /\ ~last'.info.usedStoredReference
       /\ voices'[last'.info.voice].frequency = last'.info.frequency
       /\ lastBassMidiNote' = last'.arg
       /\ lastBassFrequency' = last'.info.frequency]_vars

\* With the memory empty, the note 60 was started in silence at
\* 220 * 2^(3/12) Hz, its equal-temperament frequency, and is now the memory.
FirstNoteInEqualTemperament ==
  /\ last.op = "noteOn"
  /\ last.arg = 60
  /\ Active(last.before.voices) = {}
  /\ ~last.info.usedStoredReference
  /\ last.info.frequency = [c |-> 300, num |-> 220, den |-> 1]
  /\ lastBassMidiNote = 60
  /\ lastBassFrequency = last.info.frequency

\* With the memory set, a note started in silence at a frequency that is not
\* its equal-temperament one replaced the memory.
MemoryReplacedByFirstNote ==
  /\ last.op = "noteOn"
  /\ Active(last.before.voices) = {}
  /\ last.info.usedStoredReference
  /\ last.info.frequency # midiToFrequency(last.arg)
  /\ lastBassMidiNote = last.arg
  /\ lastBassFrequency = last.info.frequency

\* ---------------------------------------------------------------------- C16
\* C16: a note whose note-off was deferred by the pedal and whose key is held
\* again when the pedal is lifted (noteOn(n), pedal down, noteOff(n),
\* noteOn(n), pedal up) keeps its voice active through the pedal-up; a
\* noteOff(n) that arrives with the pedal up leaves no voice playing n.
HeldAgainSurvivesPedalUp ==
  /\ last.op = "pedalUp" =>
       \A n \in Range(last.before.sustainedNotes) \cap last.before.keysHeldDown :
          \A i \in Playing(last.before.voices, n) :
             /\ i \notin Released
             /\ voices[i].isActive
             /\ voices[i].midiNote = n
             /\ voices[i].frequency # NoFreq
  /\ last.op = "noteOff" =>
       /\ Playing(voices, last.arg) = {}
       /\ Playing(last.before.voices, last.arg) = Released
       /\ Released # {}

\* The pedal was lifted while the key of a deferred note was held again, on
\* the voice that was deferred, and that voice still plays the note.
PedalUpWithKeyHeldAgain ==
  /\ last.op = "pedalUp"
  /\ \E i \in last.before.sustainedVoices :
        /\ last.before.voices[i].isActive
        /\ last.before.voices[i].midiNote \in Range(last.before.sustainedNotes)
        /\ last.before.voices[i].midiNote \in last.before.keysHeldDown
        /\ voices[i].isActive
        /\ voices[i].midiNote = last.before.voices[i].midiNote

\* A note-off with the pedal up released a note that had stayed through an
\* earlier pedal: its key is no longer held and no voice plays it.
LaterNoteOffReleases ==
  /\ last.op = "noteOff"
  /\ ~sustainPedalDown
  /\ budget = PedalSteps - 6
  /\ Released # {}
  /\ last.arg \notin keysHeldDown
  /\ Playing(voices, last.arg) = {}

\* ---------------------------------------------------------------------- C17
\* C17: a note-off that arrives while the pedal is down releases no voice and
\* does no reference-change handling: every voice keeps isActive, midiNote and
\* frequency, and the current reference and lastBassFrequency/lastBassMidiNote
\* stay as they are; only keysHeldDown (the key leaves it), sustainedNotes and
\* sustainedVoices change, the note and the voice playing it being added.
DeferredNoteOffOnlyDefers ==
  [][(/\ sustainPedalDown
      /\ last'.op \in {"noteOff", "noteOffDeferred", "noteOffUnplayed"}) =>
       /\ last'.op # "noteOff"
       /\ last'.calls = <<>>
       /\ last'.retuned = <<>>
       /\ \A i \in Slots :
             /\ voices'[i].isActive = voices[i].isActive
             /\ voices'[i].midiNote = voices[i].midiNote
             /\ voices'[i].frequency = voices[i].frequency
             /\ voices'[i].oscFreq = voices[i].oscFreq
             /\ voices'[i].tunedToBassNote = voices[i].tunedToBassNote
             /\ voices'[i].tunedToBassFreq = voices[i].tunedToBassFreq
       /\ currentReferenceVoice' = currentReferenceVoice
       /\ lastBassFrequency' = lastBassFrequency
       /\ lastBassMidiNote' = lastBassMidiNote
       /\ UNCHANGED <<pitchBendAmount, referenceMode, retuneMode, sustainPedalDown>>
       /\ keysHeldDown' = keysHeldDown \ {last'.arg}
       /\ IF Playing(voices, last'.arg) # {}
          THEN /\ Range(sustainedNotes') = Range(sustainedNotes) \cup {last'.arg}
               /\ sustainedVoices' = sustainedVoices \cup Playing(voices, last'.arg)
          ELSE UNCHANGED <<sustainedNotes, sustainedVoices>>]_vars

\* With the pedal down, the note-off of the lowest of two sounding notes was
\* deferred: it still sounds, and its voice is now in sustainedVoices.
DeferredReferenceNoteOff ==
  /\ last.op = "noteOffDeferred"
  /\ sustainPedalDown
  /\ Cardinality(Active(voices)) = 2
  /\ last.arg \notin keysHeldDown
  /\ last.arg \in Range(sustainedNotes)
  /\ \E i \in sustainedVoices \ last.before.sustainedVoices :
        /\ voices[i].isActive
        /\ voices[i].midiNote = last.arg
        /\ \A j \in Active(voices) : voices[i].midiNote <= voices[j].midiNote

\* ---------------------------------------------------------------------- C18
\* no voice active, the reference memory empty, no sticky reference
Cleared ==
  /\ Active(voices) = {}
  /\ lastBassFrequency = NoFreq
  /\ lastBassMidiNote = null
  /\ currentReferenceVoice = NoVoice

\* C18: resetReference, from any state, leaves every voice inactive,
\* pitchBendAmount = 0, lastBassFrequency and lastBassMidiNote null and
\* currentReferenceVoice null; no handler other than noteOn undoes that, and
\* the next noteOn(n) plays the equal-temperament frequency of n.
ResetClearsEverything ==
  [][/\ last'.op = "reset" =>
          /\ Cleared'
          /\ pitchBendAmount' = 0
          /\ \A i \in Slots : voices'[i].frequency = NoFreq
                               /\ voices'[i].midiNote = null
     /\ (Cleared /\ last'.op # "noteOn") => Cleared'
     /\ (Cleared /\ last'.op = "noteOn") =>
          /\ last'.info.frequency = Freq((last'.arg - 69) * 100, 440, 1)
          /\ voices'[last'.info.voice].frequency = last'.info.frequency
          /\ voices'[last'.info.voice].oscFreq = last'.info.frequency]_vars

\* A reset stopped sounding voices.
ResetStoppedVoices ==
  /\ last.op = "reset"
  /\ Active(last.before.voices) # {}
  /\ Cleared

\* After notes had been tuned from 60 and everything was reset, the note 64
\* was started at its equal-temperament frequency, not at 5/4 of the old 60.
EqualTemperedAfterReset ==
  /\ last.op = "noteOn"
  /\ last.arg = 64
  /\ Active(last.before.voices) = {}
  /\ \E i \in Slots : last.before.voices[i].tunedToBassNote = 60
  /\ ~last.info.usedStoredReference
  /\ last.info.frequency = midiToFrequency(64)
  /\ last.info.frequency # FMul(midiToFrequency(60), 5, 4)

\* ---------------------------------------------------------------------- C19
\* C19: applyPitchBend(a) changes no voice's stored frequency; after it every
\* active voice sounds at its stored frequency * 2^(a * pitchBendRange / 1200),
\* whatever the bend was before, so applyPitchBend(0) restores the unbent
\* pitch.
PitchBendIsNotCumulative ==
  last.op = "pitchBend" =>
    /\ pitchBendAmount = last.arg
    /\ \A i \in Slots :
          /\ voices[i].frequency = last.before.voices[i].frequency
          /\ voices[i].isActive = last.before.voices[i].isActive
          /\ voices[i].midiNote = last.before.voices[i].midiNote
    /\ \A i \in Active(voices) :
          /\ voices[i].oscFreq = Freq(voices[i].frequency.c + last.arg * pitchBendRange,
                                      voices[i].frequency.num,
                                      voices[i].frequency.den)
          /\ last.arg = 0 => voices[i].oscFreq = voices[i].frequency

\* A bend to a new wheel position was applied to a voice that was sounding
\* bent already.
BentAgain ==
  /\ last.op = "pitchBend"
  /\ last.arg # 0
  /\ \E i \in Active(voices) :
        /\ last.before.voices[i].oscFreq # last.before.voices[i].frequency
        /\ last.before.voices[i].oscFreq # voices[i].oscFreq

\* A bend of 0 brought a voice that was sounding bent back to its stored
\* frequency.
BendReleased ==
  /\ last.op = "pitchBend"
  /\ last.arg = 0
  /\ \E i \in Active(voices) :
        /\ last.before.voices[i].oscFreq # last.before.voices[i].frequency
        /\ voices[i].oscFreq = voices[i].frequency

\* ---------------------------------------------------------------------- C20
\* C20: after setRetuneMode was given a string that is no retune mode, the
\* synth behaves as in 'static' mode: a release of the reference changes
\* neither the frequency nor the tunedToBassNote/tunedToBassFreq of any voice
\* that stays, and returns an empty list.
UnknownRetuneModeIsStatic ==
  retuneMode \notin {"static", "smooth", "instant"} =>
    /\ \A k \in 1..Len(last.calls) :
          ReleasedReference(last.calls[k]) =>
            /\ last.calls[k].retuned = <<>>
            /\ \A i \in Active(last.calls[k].after) :
                  SameTuning(last.calls[k].before, last.calls[k].after, i)
    /\ last.op \in {"noteOff", "pedalUp"} => last.retuned = <<>>

\* With a retune mode that is none of the three, the note-off of the
\* reference returned a list and gave a voice that stayed the new reference as
\* tunedToBassNote, while the voice kept its frequency.
RelabelledInUnknownMode ==
  /\ last.op = "noteOff"
  /\ retuneMode \notin {"static", "smooth", "instant"}
  /\ last.retuned # <<>>
  /\ ReleasedReference(last.calls[1])
  /\ \E i \in Active(voices) :
        /\ voices[i].tunedToBassNote # last.before.voices[i].tunedToBassNote
        /\ voices[i].tunedToBassNote \in NotesOf(voices)
        /\ voices[i].tunedToBassFreq # last.before.voices[i].tunedToBassFreq
        /\ voices[i].frequency = last.before.voices[i].frequency

\* ---------------------------------------------------------------------- C21
\* C21: referenceMode is one of 'bass', 'random', 'lattice' in every reachable
\* state; setReferenceMode given one of them sets it, and given any other
\* string leaves the synth in 'bass' mode.
ReferenceModeIsKnown ==
  /\ referenceMode \in {"bass", "random", "lattice"}
  /\ last.op = "setReferenceMode" =>
       referenceMode = IF last.arg \in {"bass", "random", "lattice"}
                       THEN last.arg ELSE "bass"

\* setReferenceMode was given a string that is no reference mode while a
\* sticky reference was sounding, and the synth is in 'bass' mode.
UnknownReferenceModeGiven ==
  /\ last.op = "setReferenceMode"
  /\ last.arg \notin {"bass", "random", "lattice"}
  /\ last.before.currentReferenceVoice \in Active(voices)
  /\ referenceMode = "bass"
  /\ currentReferenceVoice = NoVoice

\* ---------------------------------------------------------------------- C22
\* C22: a note-off for a note that no active voice is playing is a no-op: the
\* handler releases nothing and gets no list, no voice changes, the reference
\* memory and the sticky reference stay, and nothing is added to
\* sustainedNotes or sustainedVoices, pedal down or not; noteOff(n) called on
\* the synth itself returns an empty list and leaves the synth as it was.
UnplayedNoteOffIsNoOp ==
  [][/\ (/\ last'.op \in {"noteOff", "noteOffDeferred", "noteOffUnplayed"}
         /\ Playing(voices, last'.arg) = {}) =>
          /\ last'.op = "noteOffUnplayed"
          /\ last'.calls = <<>>
          /\ last'.retuned = <<>>
          /\ UNCHANGED <<voices, lastBassFrequency, lastBassMidiNote,
                         currentReferenceVoice, sustainedNotes, sustainedVoices,
                         sustainPedalDown, pitchBendAmount, referenceMode,
                         retuneMode>>
     /\ \A n \in Notes :
          Playing(voices, n) = {} =>
            /\ releaseNote(Synth(<<>>, Now), n, {}).s = Synth(<<>>, Now)
            /\ releaseNote(Synth(<<>>, Now), n, {}).ret = <<>>
            /\ releaseNote(Synth(<<>>, Now), n, sustainedVoices).s = Synth(<<>>, Now)
            /\ releaseNote(Synth(<<>>, Now), n, sustainedVoices).ret = <<>>]_vars

\* With the pedal down and a note sounding, the key of a note that no voice
\* plays was released.
UnplayedNoteOffUnderPedal ==
  /\ last.op = "noteOffUnplayed"
  /\ sustainPedalDown
  /\ Active(voices) # {}
  /\ last.arg \notin NotesOf(voices)
  /\ last.arg \notin Range(sustainedNotes)
  /\ lastBassMidiNote # null

\* ---------------------------------------------------------------------- C23
\* C23: the bookkeeping never waits on the fade.  The voices a note-off
\* releases and the voices a reset stops are inactive when the handler
\* returns; a fade timer that runs later changes no voice's isActive, midiNote
\* or frequency; and whatever timers are pending, a note-on of a note no voice
\* plays, when some voice is inactive, starts an inactive voice and steals
\* nothing.
BookkeepingNeverWaitsOnFade ==
  [][/\ (last'.op = "noteOff" /\ last' # last) =>
         \A c \in Range(last'.calls) : \A i \in c.released :
           ~c.after[i].isActive
     /\ (last'.op = "reset" /\ last' # last) => Active(voices') = {}
     /\ timers'.pending # timers.pending /\ last' = last =>
         \A i \in Slots :
           /\ voices'[i].isActive = voices[i].isActive
           /\ voices'[i].midiNote = voices[i].midiNote
           /\ voices'[i].frequency = voices[i].frequency
     /\ ( /\ last'.op = "noteOn" /\ last' # last
          /\ Playing(voices, last'.arg) = {}
          /\ Active(voices) # Slots ) =>
         /\ last'.info.stolenNote = null
         /\ last'.info.voice \in Slots \ Active(voices)
         /\ voices'[last'.info.voice].isActive
         /\ voices'[last'.info.voice].midiNote = last'.arg]_vars

\* a note-on has started the voice a reset stopped, with the stop's timer
\* still pending, and another the voice a note-off released, with the
\* release's timer still pending
NoteOnBeforeFadeRan ==
  /\ last.op = "noteOn"
  /\ last.info.stolenNote = null
  /\ ~last.before.voices[last.info.voice].isActive
  /\ \E k \in {"release", "stop"} : Timer(last.info.voice, k) \in timers.pending

\* ---------------------------------------------------------------------- C24
\* C24: a reference-mode switch resets the reference memory: after
\* setReferenceMode the sticky reference slot is empty and lastBassMidiNote
\* and lastBassFrequency are empty as well, as after resetReference.
ModeSwitchResetsMemory ==
  last.op = "setReferenceMode" =>
    /\ currentReferenceVoice = NoVoice
    /\ lastBassMidiNote = null
    /\ lastBassFrequency = NoFreq

\* setReferenceMode has emptied the sticky slot of a silent synth and left
\* the note and frequency of the last reference in place
MemoryKeptAcrossModeSwitch ==
  /\ last.op = "setReferenceMode"
  /\ Active(voices) = {}
  /\ currentReferenceVoice = NoVoice
  /\ lastBassMidiNote \in Notes
  /\ lastBassFrequency # NoFreq

\* ---------------------------------------------------------------------- C25
\* equal temperament for middle C: 220 Hz * 2^(300/1200) = 261.6256 Hz
ET60 == [c |-> 300, num |-> 220, den |-> 1]

\* the pool vs plays exactly the notes 60, 64, 67 as the triad 4:5:6 on ET60
TriadOnET60(vs) ==
  /\ NotesOf(vs) = {60, 64, 67}
  /\ \A i \in Playing(vs, 60) : vs[i].frequency = ET60
  /\ \A i \in Playing(vs, 64) : vs[i].frequency = FMul(ET60, 5, 4)
  /\ \A i \in Playing(vs, 67) : vs[i].frequency = FMul(ET60, 3, 2)

DegreeRatios ==
  <<<<1, 1>>, <<16, 15>>, <<9, 8>>, <<6, 5>>, <<5, 4>>, <<4, 3>>,
    <<45, 32>>, <<3, 2>>, <<8, 5>>, <<5, 3>>, <<9, 5>>, <<15, 8>>>>

\* table[|i| mod 12] * 2^(|i| div 12), inverted when i < 0
FoldedRatio(i) ==
  IF i >= 0
  THEN <<DegreeRatios[(i % 12) + 1][1] * Pow2(i \div 12),
         DegreeRatios[(i % 12) + 1][2]>>
  ELSE <<DegreeRatios[((-i) % 12) + 1][2],
         DegreeRatios[((-i) % 12) + 1][1] * Pow2((-i) \div 12)>>

\* C26: for every interval i in [-36,36] and reference frequency f,
\* getJustFrequency(f, n, n+i) is f times table[|i| mod 12] * 2^(|i| div 12),
\* inverted when i < 0, with the table 1/1, 16/15, 9/8, 6/5, 5/4, 4/3, 45/32,
\* 3/2, 8/5, 5/3, 9/5, 15/8; and getJustFrequency(f, n, n) is f.
JustFrequencyIsTableRatio ==
  just.applied = 1 =>
    /\ just.frequency =
         FMul(just.given, FoldedRatio(just.referenceMidi - just.targetMidi)[1],
              FoldedRatio(just.referenceMidi - just.targetMidi)[2])
    /\ just.referenceMidi = just.targetMidi => just.frequency = just.given

\* getJustFrequency has gone down two octaves and a tritone from a frequency
\* that is itself a just third
JustFrequencyFarBelow ==
  /\ just.applied = 1
  /\ just.referenceMidi - just.targetMidi = -30
  /\ just.given = FMul(midiToFrequency(60), 5, 4)
  /\ just.frequency = FMul(just.given, 32, 180)

\* ---------------------------------------------------------------------- C27
\* C27: ratio(i+12) = 2 * ratio(i) and ratio(-i) = 1 / ratio(i) for every i
\* in [0,12], and tuning there and back is the identity:
\* getJustFrequency(getJustFrequency(f, a, b), b, a) = f.
RatioFoldsAndInverts ==
  /\ \A i \in 0..12 :
        /\ justRatio(i + 12)[1] * justRatio(i)[2]
             = 2 * justRatio(i)[1] * justRatio(i + 12)[2]
        /\ justRatio(-i)[1] * justRatio(i)[1] = justRatio(-i)[2] * justRatio(i)[2]
        /\ FMul(just.given, justRatio(i + 12)[1], justRatio(i + 12)[2])
             = FMul(FMul(just.given, justRatio(i)[1], justRatio(i)[2]), 2, 1)
  /\ just.applied = 2 => just.frequency = just.given

\* a frequency has come back from a minor sixth below
ThereAndBackAgain ==
  /\ just.applied = 2
  /\ just.targetMidi - just.referenceMidi = -8
  /\ just.given = FMul(midiToFrequency(69), 16, 15)
  /\ just.frequency = just.given

\* ---------------------------------------------------------------------- C28
\* C28: for seventh chords findHarmonicCenter returns the chord root: the
\* voice playing G (67) for the active notes 67, 71, 74, 77, the voice playing
\* C (60) for 60, 64, 67, 71 and the voice playing D (62) for 62, 65, 69, 72.
HarmonicCenterIsSeventhRoot ==
  (hcOut # null /\ hcOut # NoVoice) =>
    /\ NotesOf(voices) = {67, 71, 74, 77} => voices[hcOut].midiNote = 67
    /\ NotesOf(voices) = {60, 64, 67, 71} => voices[hcOut].midiNote = 60
    /\ NotesOf(voices) = {62, 65, 69, 72} => voices[hcOut].midiNote = 62

\* findHarmonicCenter was given G-B-D-F in pool order and returned the voice
\* playing the D, whose weights sum to 21 against the 19 of the G
HarmonicCenterIsSeventhFifth ==
  /\ hcOut = 3
  /\ \A i \in Slots : voices[i].isActive
  /\ voices[1].midiNote = 67 /\ voices[2].midiNote = 71
  /\ voices[3].midiNote = 74 /\ voices[4].midiNote = 77
  /\ Consonance(voices, 3) = 21
  /\ Consonance(voices, 1) = 19

\* What findHarmonicCenter returns for the three chords, whichever slots hold
\* the notes: the fifth of G7 and the thirds of Cmaj7 and Dm7.
SeventhChordCenters ==
  (hcOut # null /\ hcOut # NoVoice) =>
    /\ NotesOf(voices) = {67, 71, 74, 77} => voices[hcOut].midiNote = 74
    /\ NotesOf(voices) = {60, 64, 67, 71} => voices[hcOut].midiNote = 64
    /\ NotesOf(voices) = {62, 65, 69, 72} => voices[hcOut].midiNote = 65

\* ---------------------------------------------------------------------- C29
\* C29: monosynth: after resetReference, in whatever state it is called (a
\* note may be sounding), the next noteOn(n) uses equal temperament for n and
\* returns no intervalInfo.
MonoResetThenEqualTempered ==
  (mono.op = "noteOn" /\ mono.previous = "reset") =>
    /\ mono.ret.frequency = midiToFrequency(mono.arg)
    /\ ~mono.ret.intervalInfo
    /\ mono.synth.currentFrequency = midiToFrequency(mono.arg)

\* the reset came while 60 sounded, and the 64 played next is a just major
\* third above it, with an intervalInfo naming 60 as its reference
MonoResetWhileSounding ==
  /\ mono.op = "noteOn" /\ mono.arg = 64
  /\ mono.previous = "reset"
  /\ mono.before.oscillator
  /\ mono.before.currentNote = 60
  /\ mono.before.lastPlayedNote = null
  /\ mono.ret.intervalInfo
  /\ mono.ret.referenceMidi = 60
  /\ mono.ret.frequency = FMul(mono.before.currentFrequency, 5, 4)
  /\ mono.ret.frequency # midiToFrequency(64)

\* With no note sounding when reset is called, the next noteOn is
\* equal-tempered and has no intervalInfo.
MonoResetInSilence ==
  (mono.op = "noteOn" /\ mono.previous = "reset" /\ ~mono.before.oscillator) =>
    /\ mono.ret.frequency = midiToFrequency(mono.arg)
    /\ ~mono.ret.intervalInfo

NoStuckNotes ==
  ~sustainPedalDown =>
    /\ \A i \in Active(voices) : voices[i].midiNote \in keysHeldDown
    /\ keysHeldDown = {} => Active(voices) = {}

\* the pedal was lifted, released the voice of a key let go under it and left
\* sounding the voice of a key still held
PedalUpLeftOnlyHeldKeys ==
  /\ last.op = "pedalUp"
  /\ Released # {}
  /\ Active(voices) # {}
  /\ \A i \in Active(voices) : voices[i].midiNote \in keysHeldDown

\* ---------------------------------------------------------------------- C32
\* C32: noteOn changes the note, stored frequency and activity of at most
\* one voice, the one it allocates; it retunes no other voice and returns no
\* retune; and it changes lastBassFrequency/lastBassMidiNote only when no
\* voice was active before the call, also when it steals the reference.
NoteOnTouchesOneVoice ==
  [][(last'.op = "noteOn" /\ budget' = budget - 1) =>
       /\ \A i \in Slots \ {last'.info.voice} :
             /\ voices'[i].isActive = voices[i].isActive
             /\ voices'[i].midiNote = voices[i].midiNote
             /\ voices'[i].frequency = voices[i].frequency
             /\ voices'[i].oscFreq = voices[i].oscFreq
             /\ voices'[i].tunedToBassNote = voices[i].tunedToBassNote
             /\ voices'[i].tunedToBassFreq = voices[i].tunedToBassFreq
       /\ last'.retuned = <<>>
       /\ last'.calls = <<>>
       /\ Active(voices) # {} =>
             /\ lastBassFrequency' = lastBassFrequency
             /\ lastBassMidiNote' = lastBassMidiNote
       /\ Active(voices) = {} =>
             /\ lastBassFrequency' = last'.info.frequency
             /\ lastBassMidiNote' = last'.arg]_vars

\* in a sticky mode a note-on has stolen the pinned reference, and the
\* reference memory holds the stolen note still, not the new one
StoleReferenceKeptMemory ==
  /\ last.op = "noteOn"
  /\ referenceMode \in {"random", "lattice"}
  /\ last.info.stolenNote # null
  /\ last.before.currentReferenceVoice = last.info.voice
  /\ lastBassMidiNote = last.info.stolenNote
  /\ lastBassMidiNote # last.arg

\* ---------------------------------------------------------------------- C33
\* every active voice of the pool vs has the frequency of its just interval
\* from the voice r
JustFrom(vs, r) ==
  \A v \in Active(vs) :
     vs[v].frequency = getJustFrequency(vs[r].frequency, vs[r].midiNote,
                                        vs[v].midiNote)

\* C33: in 'random' or 'lattice' mode with retune mode 'instant' and no mode
\* switch or reset, in every reachable state in which a sticky reference R is
\* pinned and active each active voice v has the frequency
\* getJustFrequency(R.frequency, R.midiNote, v.midiNote), whatever note-ons
\* (steals included), note-offs and pedal events came before.
StickyInstantAllJust ==
  ( /\ referenceMode \in {"random", "lattice"}
    /\ retuneMode = "instant"
    /\ currentReferenceVoice # NoVoice
    /\ voices[currentReferenceVoice].isActive ) =>
    JustFrom(voices, currentReferenceVoice)

\* a note-on has stolen the pinned reference: it stays pinned with the new
\* note, and the other voice keeps the interval it had from the stolen note,
\* which is not its just interval from the new one
StolenReferenceOutOfTune ==
  /\ last.op = "noteOn"
  /\ last.info.stolenNote # null
  /\ last.before.currentReferenceVoice = last.info.voice
  /\ currentReferenceVoice = last.info.voice
  /\ JustFrom(last.before.voices, last.info.voice)
  /\ \E v \in Active(voices) :
        /\ voices[v].frequency = last.before.voices[v].frequency
        /\ voices[v].tunedToBassNote = last.info.stolenNote
        /\ voices[v].frequency #
             getJustFrequency(voices[currentReferenceVoice].frequency,
                              voices[currentReferenceVoice].midiNote,
                              voices[v].midiNote)

\* Every handler but a note-on that steals the pinned reference keeps the
\* voices in just relation to the pinned reference.
StickyJustUnlessReferenceStolen ==
  [][( /\ currentReferenceVoice # NoVoice => JustFrom(voices, currentReferenceVoice)
       /\ ~( /\ last'.op = "noteOn"
             /\ last'.info.stolenNote # null
             /\ currentReferenceVoice = last'.info.voice ) ) =>
       ( (currentReferenceVoice' # NoVoice /\ voices'[currentReferenceVoice'].isActive)
           => JustFrom(voices', currentReferenceVoice') )]_vars

NoteOffListIsCurrent ==
  last.op = "noteOff" =>
    \A k \in 1..Len(last.retuned) :
       /\ voices[last.retuned[k].voice].isActive
       /\ voices[last.retuned[k].voice].midiNote = last.retuned[k].midiNote
       /\ voices[last.retuned[k].voice].frequency = last.retuned[k].newFrequency

\* ---------------------------------------------------------------------- C35
\* the oscillator of voice i of the pool vs is at the voice's stored
\* frequency bent by `amount` of the pitch-bend range
SoundsBent(vs, i, amount) ==
  vs[i].oscFreq = FBend(vs[i].frequency, amount * pitchBendRange)

\* C35: in every reachable state the oscillator frequency of each active
\* voice is its stored frequency times 2^(pitchBendAmount * pitchBendRange /
\* 1200), also for voices started, retriggered or retuned while a bend that is
\* not zero is held.
OscillatorFollowsBend ==
  \A i \in Active(voices) : SoundsBent(voices, i, pitchBendAmount)

\* with the wheel held off centre a second note was started: the voice that
\* was sounding is bent, the new one is at its stored frequency
NoteStartedUnderBendIsUnbent ==
  /\ last.op = "noteOn"
  /\ pitchBendAmount # 0
  /\ voices[last.info.voice].oscFreq = voices[last.info.voice].frequency
  /\ ~SoundsBent(voices, last.info.voice, pitchBendAmount)
  /\ \E i \in Active(voices) \ {last.info.voice} :
        SoundsBent(voices, i, pitchBendAmount)

\* Right after applyPitchBend every active voice sounds bent by the amount.
BentRightAfterPitchBend ==
  last.op = "pitchBend" =>
    \A i \in Active(voices) : SoundsBent(voices, i, pitchBendAmount)

\* ---------------------------------------------------------------------- C36
\* C36: no two active voices ever have the same noteOnTime, so when the pool
\* is full the oldest voice, the one to steal, is uniquely determined.
StartOrderIsUnique ==
  \A i, j \in Active(voices) :
     voices[i].noteOnTime = voices[j].noteOnTime => i = j

\* a note-on found the pool full with two voices started at the same reading
\* of the audio clock, and stole the first of them in pool order
StoleOneOfTwoOldest ==
  /\ last.op = "noteOn"
  /\ last.info.stolenNote # null
  /\ \E j \in Active(last.before.voices) \ {last.info.voice} :
        /\ last.before.voices[j].noteOnTime
             = last.before.voices[last.info.voice].noteOnTime
        /\ last.info.voice < j

\* ---------------------------------------------------------------------- C37
\* C37: lastBassMidiNote/lastBassFrequency are null exactly when no noteOn
\* has occurred since construction or the last resetReference: a note-on
\* leaves them set, a reset leaves them null, and no other handler changes
\* whether they are set.  So a note-on is equal-tempered, without stored
\* reference, exactly when it is the first since construction or reset; and
\* when a release leaves the pool silent, the memory holds the note and the
\* bent frequency of the voice released last.
MemoryNullUntilFirstNoteOn ==
  [][budget' = budget - 1 =>
       /\ (lastBassMidiNote' = null) <=> (lastBassFrequency' = NoFreq)
       /\ last'.op = "noteOn" => lastBassMidiNote' # null
       /\ last'.op = "reset" => lastBassMidiNote' = null
       /\ last'.op \notin {"noteOn", "reset"} =>
             ((lastBassMidiNote' = null) <=> (lastBassMidiNote = null))
       /\ last'.op = "noteOn" =>
             ( (lastBassMidiNote = null)
                 <=> ( /\ last'.info.reference = NoVoice
                       /\ ~last'.info.usedStoredReference
                       /\ last'.info.frequency = midiToFrequency(last'.arg) ) )
       /\ ( /\ last'.op \in {"noteOff", "pedalUp"}
            /\ Len(last'.calls) > 0
            /\ Active(voices') = {} ) =>
             \A i \in last'.calls[Len(last'.calls)].released :
                /\ lastBassMidiNote'
                     = last'.calls[Len(last'.calls)].before[i].midiNote
                /\ lastBassFrequency'
                     = FBend(last'.calls[Len(last'.calls)].before[i].frequency,
                             pitchBendAmount * pitchBendRange)]_vars

\* a note-off has silenced the pool by releasing a voice that had been tuned
\* from another note, and the memory holds that voice's note and frequency,
\* not those of the first note played
LastReleasedIsRemembered ==
  /\ last.op = "noteOff"
  /\ Active(voices) = {}
  /\ lastBassMidiNote = last.arg
  /\ \E i \in Released :
        /\ last.before.voices[i].tunedToBassNote # last.arg
        /\ lastBassFrequency = FBend(last.before.voices[i].frequency,
                                      pitchBendAmount * pitchBendRange)
        /\ lastBassFrequency # midiToFrequency(last.arg)

\* ---------------------------------------------------------------------- C38
\* C38: the cleanup Voice.stop schedules disconnects only the nodes that
\* were sounding when stop was called: when a noteOn restarts the voice
\* before the timer runs, the new oscillator, filter and gain stay connected,
\* and the voice that is marked active keeps sounding.
ActiveVoicesStayConnected ==
  \A i \in Active(voices) : voices[i].connected

\* the voice stopped by a reset was started again by the next note-on, the
\* stop's timer has run since, and the voice is active with an oscillator
\* that is connected to nothing
RestartedVoiceDisconnected ==
  /\ last.op = "noteOn"
  /\ voices[last.info.voice].isActive
  /\ voices[last.info.voice].midiNote = last.arg
  /\ voices[last.info.voice].oscFreq = last.info.frequency
  /\ ~voices[last.info.voice].connected
  /\ Timer(last.info.voice, "stop") \notin timers.pending

\* The callbacks of release and of the crossfade in start leave every voice
\* as it is.
CapturedNodesOnly ==
  [][\A i \in Slots :
       ( /\ timers'.pending # timers.pending
         /\ budget' = budget
         /\ Timer(i, "stop") \notin timers.pending \ timers'.pending ) =>
         voices'[i] = voices[i]]_vars

\* ---------------------------------------------------------------------- C39
\* C39: monosynth: after noteOn(n), pedal down, noteOff(n) (deferred),
\* noteOn(n) again with the key held, pedal up, the note n keeps sounding
\* (currentNote = n after the pedal-up): a pedal-up that follows the note-on
\* of a note deferred under the pedal leaves that note sounding.
MonoHeldAgainSurvivesPedalUp ==
  ( /\ mono.op = "pedalUp"
    /\ mono.previous = "noteOn"
    /\ mono.before.currentNote \in Range(mono.before.sustainedNotes) ) =>
    /\ mono.synth.currentNote = mono.before.currentNote
    /\ mono.synth.oscillator

\* the five handlers of the example have run with n = 60: the pedal-up found
\* 60 sounding again and sustained, no key recorded as held, and stopped it
MonoPedalUpStoppedHeldNote ==
  /\ budget = MonoSteps - 5
  /\ mono.op = "pedalUp"
  /\ mono.previous = "noteOn"
  /\ mono.before.currentNote = 60
  /\ mono.before.sustainedNotes = <<60>>
  /\ mono.before.keysHeldDown = {}
  /\ mono.synth.currentNote = null
  /\ ~mono.synth.oscillator
  /\ mono.synth.lastPlayedNote = 60

\* App never records a key as held.
MonoKeysNeverHeld == mono.synth.keysHeldDown = {}

====
